---------------------------- MODULE Spec2Model ----------------------------
(***************************************************************************)
(* Particle pools of arcesoftware/GO_Examples.                             *)
(*                                                                         *)
(* Three fixed-pool programs are modelled side by side; the variable prog  *)
(* says which one a behaviour runs:                                        *)
(*   "smokefire"  src/unnamed/part_000   (smoke emitter + fire explosion)  *)
(*   "concert"    src/Concert.main.go    (3D depth fire, click explosion)  *)
(*   "show"       src/amazing.main.go    (concert show, lines 1-455)       *)
(*                                                                         *)
(* In the pooled programs float64 values are fixed-point integers in units *)
(* of 1/FP pixel (or 1/FP radian); the projection, the fade and the balls  *)
(* are computed in float64 itself (sections further down).  A call of      *)
(* math/rand is an input of the action that makes it: the action draws it  *)
(* from a small set of values the call can return.                         *)
(***************************************************************************)
EXTENDS Integers, Sequences, FiniteSets, TLC

VARIABLES prog,       \* which program runs
          particles,  \* Game.particles: the pool, a sequence of particle records
          emitters,   \* Game.emitters
          tick,       \* number of Update calls so far (Game.tick in the show)
          clicks,     \* number of input bursts so far (bounds the inputs)
          mid,        \* history: the pool of the last Update after its spawns, before integration
          bursts,     \* history: the spawn requests of the last Update
          since,      \* history: per slot, Update calls since (and including) the one that spawned it,
                      \* 0 for a slot that was free during the whole last Update
          uses,       \* history: per slot, how many times it was allocated
          ret,        \* history: what the last Update returned
          calls,      \* history: the spawnAt calls of the emitter loop of the show's last Update
          drawn,      \* the items the last Draw of a depth-sorted program drew, in the order drawn
          camera,     \* the sines and cosines of Game.yaw and Game.pitch of the 3D programs
          batches     \* the vertex and index buffers of the batched programs, per blend mode,
                      \* with the draw calls the last Draw made of each

vars == <<prog, particles, emitters, tick, clicks, mid, bursts, since, uses, ret, calls, drawn,
          camera, batches>>

-----------------------------------------------------------------------------
(* Bounds of the model *)

\* pool capacity (maxParticles is 10000 / 8000 / 14000 in the programs)
MaxParticles == 3
\* Update calls per behaviour
MaxTicks == 47
\* input bursts (mouse clicks, space presses, surprise bursts) per behaviour
MaxClicks == 1
\* Update calls of the show in which an ember may draw a non-zero wobble (the first ones)
MaxWobbleTicks == 1

\* fixed-point resolution of a float64: 1 pixel = FP units
FP == 1000

Min(a, b) == IF a < b THEN a ELSE b

Abs(a) == IF a < 0 THEN -a ELSE a

ActiveCount(ps) == Cardinality({i \in DOMAIN ps : ps[i].active})
FreeCount(ps) == Cardinality({i \in DOMAIN ps : ~ps[i].active})

\* one spawn request: n particles asked for (a count above the capacity is recorded
\* as capacity + 1), free slots before it, made = particles created
Burst(n, before, after) ==
    [n |-> Min(n, Len(before) + 1), free |-> FreeCount(before),
     made |-> ActiveCount(after) - ActiveCount(before)]

\* v * (permille / 1000) of a float64 product, rounded towards zero
mul(v, permille) ==
    IF v >= 0 THEN (v * permille) \div 1000 ELSE -(((-v) * permille) \div 1000)

-----------------------------------------------------------------------------
(* src/unnamed/part_000: smoke and fire *)

screenWidth == 640
screenHeight == 480

TypeSmoke == 0
TypeFire == 1

\* a release that flips the flag instead of clearing it
release_toggle(p) == [p EXCEPT !.active = ~p.active]

\* p.active = false, the release of a slot (in Particle.update and in Game.Update)
release(p) == [p EXCEPT !.active = FALSE]

\* Particle.update in the order move, force, turn, age, expiry test
update_moveFirst(p) ==
    IF ~p.active THEN p
    ELSE LET q == [p EXCEPT !.x = p.x + p.vx,
                            !.y = p.y + p.vy,
                            !.vy = p.vy + (5 * FP) \div 100,
                            !.angle = p.angle + p.angularVelocity,
                            !.lifetime = p.lifetime + 1] IN
         IF q.lifetime >= q.maxLife THEN release(q) ELSE q

\* Particle.update with the expiry test lifetime > maxLife
update_late(p) ==
    IF ~p.active THEN p
    ELSE LET q == [p EXCEPT !.lifetime = p.lifetime + 1] IN
         IF q.lifetime > q.maxLife
         THEN release(q)
         ELSE [q EXCEPT !.x = q.x + q.vx,
                        !.y = q.y + q.vy,
                        !.angle = q.angle + q.angularVelocity,
                        !.vy = q.vy + (5 * FP) \div 100]

\* Particle.update
update(p) ==
    IF ~p.active THEN p
    ELSE LET q == [p EXCEPT !.lifetime = p.lifetime + 1] IN
         IF q.lifetime >= q.maxLife
         THEN release(q)
         ELSE [q EXCEPT !.x = q.x + q.vx,
                        !.y = q.y + q.vy,
                        !.angle = q.angle + q.angularVelocity,
                        !.vy = q.vy + (5 * FP) \div 100]

\* newParticle; d holds the values the calls of math/rand return:
\* d.jx, d.jy = rand.Float64()*4 - 2, d.angle, d.angularVelocity,
\* d.lifeRoll = rand.Intn(60) (smoke) or rand.Intn(30) (fire),
\* d.vx, d.vy = the velocity computed from the drawn angle and speed
newParticle(emitterX, emitterY, pType, d) ==
    [active |-> TRUE, pType |-> pType,
     x |-> emitterX + d.jx, y |-> emitterY + d.jy,
     angle |-> d.angle, angularVelocity |-> d.angularVelocity,
     lifetime |-> 0,
     maxLife |-> IF pType = TypeSmoke THEN d.lifeRoll + 240 ELSE d.lifeRoll + 45,
     vx |-> d.vx, vy |-> d.vy]

\* the linear scan of allocateParticle from slot i on; 0 is nil
scan(ps, i) ==
    IF \A j \in i..Len(ps) : ps[j].active THEN 0
    ELSE CHOOSE j \in i..Len(ps) : ~ps[j].active /\ \A k \in i..(j - 1) : ps[k].active

\* an allocateParticle that scans the pool from its end
allocateParticle_last(ps) ==
    IF \A i \in DOMAIN ps : ps[i].active THEN 0
    ELSE CHOOSE i \in DOMAIN ps : ~ps[i].active /\ \A j \in DOMAIN ps : ~ps[j].active => j <= i

\* an allocateParticle whose scan misses the first slot
allocateParticle_skipFirst(ps) == scan(ps, 2)

\* Game.allocateParticle: the index of the slot returned, 0 for nil
allocateParticle(ps) == scan(ps, 1)

\* an Emitter.spawn that, finding the pool exhausted, restarts the life of the
\* particle in the first slot
RECURSIVE spawnLoop_restart(_, _, _, _)
spawnLoop_restart(ps, e, ds, i) ==
    IF i >= 2 THEN ps
    ELSE LET k == allocateParticle(ps) IN
         IF k # 0
         THEN spawnLoop_restart([ps EXCEPT ![k] = newParticle(e.x, e.y, e.pType, Head(ds))],
                                e, Tail(ds), i + 1)
         ELSE spawnLoop_restart([ps EXCEPT ![1].lifetime = 0], e, ds, i + 1)

\* the body of Emitter.spawn's loop "burst 2 particles", from iteration i on;
\* ds are the draws of the particles still to be made
RECURSIVE spawnLoop(_, _, _, _)
spawnLoop(ps, e, ds, i) ==
    IF i >= 2 THEN ps
    ELSE LET k == allocateParticle(ps) IN
         IF k # 0
         THEN spawnLoop([ps EXCEPT ![k] = newParticle(e.x, e.y, e.pType, Head(ds))],
                        e, Tail(ds), i + 1)
         ELSE spawnLoop(ps, e, ds, i + 1)

\* the emitter after Emitter.spawn: counter advanced, rate normalised
spawnEmitter(e) ==
    [e EXCEPT !.counter = e.counter + 1,
              !.rate = IF e.rate <= 0 THEN 1 ELSE e.rate]

\* an Emitter.spawn that tests the counter it had before the increment
spawnFires_stale(e) == e.counter % spawnEmitter(e).rate = 0

\* whether Emitter.spawn reaches its loop
spawnFires(e) == spawnEmitter(e).counter % spawnEmitter(e).rate = 0

\* the pool after Emitter.spawn
spawn(ps, e, ds) ==
    IF ~spawnFires(e) THEN ps ELSE spawnLoop(ps, spawnEmitter(e), ds, 0)

\* Game.spawnExplosion from iteration i on; each draw d also holds
\* d.bvx, d.bvy = the blast velocity cos/sin(blastAngle) * blastSpeed
RECURSIVE spawnExplosionLoop(_, _, _, _, _)
spawnExplosionLoop(ps, x, y, ds, i) ==
    IF i >= 500 THEN ps
    ELSE LET k == allocateParticle(ps) IN
         IF k # 0
         THEN LET p == newParticle(x, y, TypeFire, Head(ds)) IN
              spawnExplosionLoop(
                  [ps EXCEPT ![k] = [p EXCEPT !.vx = Head(ds).bvx, !.vy = Head(ds).bvy]],
                  x, y, Tail(ds), i + 1)
         ELSE ps

spawnExplosion(ps, x, y, ds) == spawnExplosionLoop(ps, x, y, ds, 0)

\* an off-screen test that misses the left edge
offScreen_noLeft(p) ==
    \/ p.x > (screenWidth + 100) * FP
    \/ p.y < -200 * FP
    \/ p.y > (screenHeight + 200) * FP

\* an off-screen test without the margin around the screen
offScreen_noMargin(p) ==
    \/ p.x < 0
    \/ p.x > screenWidth * FP
    \/ p.y < 0
    \/ p.y > screenHeight * FP

\* the off-screen test of Game.Update
offScreen(p) ==
    \/ p.x < -100 * FP
    \/ p.x > (screenWidth + 100) * FP
    \/ p.y < -200 * FP
    \/ p.y > (screenHeight + 200) * FP

\* the body of Game.Update's loop "update particles" for one slot
updateParticle(p) ==
    IF p.active
    THEN LET q == update(p) IN
         IF offScreen(q) THEN release(q) ELSE q
    ELSE p

-----------------------------------------------------------------------------
(* src/Concert.main.go: 3D depth fire *)

\* Particle.update of Concert.main.go with the expiry test lifetime >= maxLife - 1
Concert_update_early(p) ==
    IF ~p.active THEN p
    ELSE LET q == [p EXCEPT !.lifetime = p.lifetime + 1] IN
         IF q.lifetime >= q.maxLife - 1
         THEN release(q)
         ELSE [q EXCEPT !.x = q.x + q.vx,
                        !.y = q.y + q.vy,
                        !.z = q.z + q.vz,
                        !.angle = q.angle + q.angularVelocity,
                        !.vy = q.vy + (2 * FP) \div 100,
                        !.vz = mul(q.vz, 980)]

\* Particle.update of Concert.main.go with the expiry test lifetime > maxLife
Concert_update_late(p) ==
    IF ~p.active THEN p
    ELSE LET q == [p EXCEPT !.lifetime = p.lifetime + 1] IN
         IF q.lifetime > q.maxLife
         THEN release(q)
         ELSE [q EXCEPT !.x = q.x + q.vx,
                        !.y = q.y + q.vy,
                        !.z = q.z + q.vz,
                        !.angle = q.angle + q.angularVelocity,
                        !.vy = q.vy + (2 * FP) \div 100,
                        !.vz = mul(q.vz, 980)]

\* Particle.update of Concert.main.go
Concert_update(p) ==
    IF ~p.active THEN p
    ELSE LET q == [p EXCEPT !.lifetime = p.lifetime + 1] IN
         IF q.lifetime >= q.maxLife
         THEN release(q)
         ELSE [q EXCEPT !.x = q.x + q.vx,
                        !.y = q.y + q.vy,
                        !.z = q.z + q.vz,
                        !.angle = q.angle + q.angularVelocity,
                        !.vy = q.vy + (2 * FP) \div 100,
                        !.vz = mul(q.vz, 980)]

\* newFireParticle; d holds the values the calls of math/rand return
\* (d.lifeRoll = rand.Intn(40), d.z = rand.Float64()*2 - 1, ...)
newFireParticle(x, y, d) ==
    [active |-> TRUE,
     x |-> x + d.jx, y |-> y + d.jy, z |-> d.z,
     angle |-> d.angle, angularVelocity |-> d.angularVelocity,
     lifetime |-> 0,
     maxLife |-> d.lifeRoll + 40,
     vx |-> d.vx, vy |-> d.vy, vz |-> d.vz]

\* Game.spawnExplosion of Concert.main.go from iteration i on
RECURSIVE Concert_spawnExplosionLoop(_, _, _, _, _)
Concert_spawnExplosionLoop(ps, x, y, ds, i) ==
    IF i >= 600 THEN ps
    ELSE LET k == allocateParticle(ps) IN
         IF k # 0
         THEN Concert_spawnExplosionLoop([ps EXCEPT ![k] = newFireParticle(x, y, Head(ds))],
                                         x, y, Tail(ds), i + 1)
         ELSE ps

\* a spawnExplosion that makes the last iteration of its loop only
Concert_spawnExplosion_one(ps, x, y, ds) == Concert_spawnExplosionLoop(ps, x, y, ds, 599)

Concert_spawnExplosion(ps, x, y, ds) == Concert_spawnExplosionLoop(ps, x, y, ds, 0)

\* a loop body that also moves the slots that are not active
Concert_updateParticle_moveAll(p) ==
    IF p.active THEN Concert_update(p)
    ELSE [p EXCEPT !.x = p.x + p.vx, !.y = p.y + p.vy, !.z = p.z + p.vz]

\* the body of Game.Update's loop for one slot
Concert_updateParticle(p) == IF p.active THEN Concert_update(p) ELSE p

-----------------------------------------------------------------------------
(* src/amazing.main.go, lines 1-455: the concert show *)

Show_screenWidth == 1280
Show_screenHeight == 720
spawnPerFrame == 200

KindFire == 0
KindEmber == 1

\* Particle.update of the show in which fire draws the wobble too
Show_update_wobbleAll(p, r) ==
    IF ~p.active THEN p
    ELSE LET q == [p EXCEPT !.lifetime = p.lifetime + 1] IN
         IF q.lifetime >= q.maxLife
         THEN release(q)
         ELSE LET m == [q EXCEPT !.x = q.x + q.vx,
                                 !.y = q.y + q.vy,
                                 !.z = q.z + q.vz,
                                 !.angle = q.angle + q.angularVelocity]
              IN IF m.kind = KindFire
                 THEN [m EXCEPT !.vy = mul(m.vy - (15 * FP) \div 1000, 999),
                                !.vx = mul(m.vx, 998) + r,
                                !.vz = mul(m.vz, 994)]
                 ELSE [m EXCEPT !.vy = m.vy - (10 * FP) \div 1000,
                                !.vx = m.vx + r,
                                !.vz = mul(m.vz, 995)]

\* Particle.update of the show with the expiry test lifetime > maxLife
Show_update_late(p, r) ==
    IF ~p.active THEN p
    ELSE LET q == [p EXCEPT !.lifetime = p.lifetime + 1] IN
         IF q.lifetime > q.maxLife
         THEN release(q)
         ELSE LET m == [q EXCEPT !.x = q.x + q.vx,
                                 !.y = q.y + q.vy,
                                 !.z = q.z + q.vz,
                                 !.angle = q.angle + q.angularVelocity]
              IN IF m.kind = KindFire
                 THEN [m EXCEPT !.vy = mul(m.vy - (15 * FP) \div 1000, 999),
                                !.vx = mul(m.vx, 998),
                                !.vz = mul(m.vz, 994)]
                 ELSE [m EXCEPT !.vy = m.vy - (10 * FP) \div 1000,
                                !.vx = m.vx + r,
                                !.vz = mul(m.vz, 995)]

\* Particle.update of the show; r is (rand.Float64()*2 - 1) * 0.02, drawn by an ember
Show_update(p, r) ==
    IF ~p.active THEN p
    ELSE LET q == [p EXCEPT !.lifetime = p.lifetime + 1] IN
         IF q.lifetime >= q.maxLife
         THEN release(q)
         ELSE LET m == [q EXCEPT !.x = q.x + q.vx,
                                 !.y = q.y + q.vy,
                                 !.z = q.z + q.vz,
                                 !.angle = q.angle + q.angularVelocity]
              IN IF m.kind = KindFire
                 THEN [m EXCEPT !.vy = mul(m.vy - (15 * FP) \div 1000, 999),
                                !.vx = mul(m.vx, 998),
                                !.vz = mul(m.vz, 994)]
                 ELSE [m EXCEPT !.vy = m.vy - (10 * FP) \div 1000,
                                !.vx = m.vx + r,
                                !.vz = mul(m.vz, 995)]

\* the particle Game.spawnAt writes into the slot it allocated: *p = Particle{},
\* then every field; d holds the values the calls of math/rand return
\* (d.lifeRoll = rand.Intn(50) for fire, d.emberLifeRoll = rand.Intn(200) for an ember)
spawnAtParticle(x, y, kind, d) ==
    IF kind = KindFire
    THEN [active |-> TRUE, kind |-> kind,
          x |-> x + d.jx, y |-> y + d.jy, z |-> d.z,
          angle |-> d.angle, angularVelocity |-> d.angularVelocity,
          lifetime |-> 0, maxLife |-> 30 + d.lifeRoll,
          vx |-> d.vx, vy |-> d.vy, vz |-> d.vz]
    ELSE [active |-> TRUE, kind |-> kind,
          x |-> x + d.jx, y |-> y + d.jy, z |-> d.z,
          angle |-> d.angle, angularVelocity |-> d.emberAngularVelocity,
          lifetime |-> 0, maxLife |-> 120 + d.emberLifeRoll,
          vx |-> d.emberVx, vy |-> d.emberVy, vz |-> d.emberVz]

\* a spawnAt without the reset *p = Particle{}: lifetime, which spawnAt sets nowhere
\* else, keeps the value the slot held
spawnAt_keepLifetime(ps, x, y, kind, d) ==
    LET k == allocateParticle(ps) IN
    IF k # 0
    THEN [ps EXCEPT ![k] = [spawnAtParticle(x, y, kind, d) EXCEPT !.lifetime = ps[k].lifetime]]
    ELSE ps

\* Game.spawnAt
spawnAt(ps, x, y, kind, d) ==
    LET k == allocateParticle(ps) IN
    IF k # 0 THEN [ps EXCEPT ![k] = spawnAtParticle(x, y, kind, d)] ELSE ps

\* n calls of spawnAt in a row (the loops of spawnBurst and of the emitters), on
\* st = [ps |-> pool, ds |-> draws not used yet].  A call that finds the pool full
\* changes nothing, and so does every call after it: the loop is cut there.
RECURSIVE spawnAtLoop(_, _, _, _, _)
spawnAtLoop(st, x, y, kind, n) ==
    IF n <= 0 THEN st
    ELSE IF allocateParticle(st.ps) = 0 THEN st
    ELSE spawnAtLoop([ps |-> spawnAt(st.ps, x, y, kind, Head(st.ds)), ds |-> Tail(st.ds)],
                     x, y, kind, n - 1)

\* Game.spawnBurst
spawnBurst(st, x, y, count) == spawnAtLoop(st, x, y, KindFire, count)

\* the jittered spawn count of an emitter; pulse in [0, 1] and r = rand.Float64(),
\* both in units of 1/FP, capped per emitter.  The products are formed exactly and
\* truncated once, as int(...) does: baseSpawn * (0.2 + pulse * 0.5) is
\* baseSpawn * (0.4 + pulse) / 2, and (0.8 + r * 0.8) is 4 * (1 + r) / 5
target(e, pulse, r) ==
    LET t == IF e.kind = KindEmber
             THEN (e.baseSpawn * ((4 * FP) \div 10 + pulse)) \div (2 * FP)
             ELSE (4 * e.baseSpawn * (FP \div 2 + pulse) * (FP + r)) \div (5 * FP * FP)
    IN IF t > 250 THEN 250 ELSE t

\* an emitter loop without the test totalSpawns < spawnPerFrame
emitterSpawns_noCap(e, in, totalSpawns) == target(e, in.pulse, in.r)

\* the number of spawnAt calls of one emitter when totalSpawns were made before it
emitterSpawns(e, in, totalSpawns) ==
    IF totalSpawns >= spawnPerFrame THEN 0
    ELSE Min(target(e, in.pulse, in.r), spawnPerFrame - totalSpawns)

\* the emitter loop of Game.Update from emitter j on, on
\* st = [ps, ds, total |-> totalSpawns, each |-> the spawnAt calls of each emitter's
\* loop so far, extra |-> the spawnAt calls of the surprise bursts so far,
\* bursts |-> the requests made so far];
\* ins[j] holds emitter j's inputs: its position (ex, ey), pulse, r, and whether the
\* surprise burst fires and with which count
RECURSIVE emitterLoop(_, _, _, _)
emitterLoop(st, es, ins, j) ==
    IF j > Len(es) THEN st
    ELSE LET in == ins[j]
             n == emitterSpawns(es[j], in, st.total)
             a == spawnAtLoop([ps |-> st.ps, ds |-> st.ds], in.ex, in.ey, es[j].kind, n)
             b == IF in.surprise THEN spawnBurst(a, in.ex, in.ey, in.count) ELSE a
         IN emitterLoop([ps |-> b.ps, ds |-> b.ds, total |-> st.total + n,
                         each |-> Append(st.each, n),
                         extra |-> st.extra + (IF in.surprise THEN in.count ELSE 0),
                         bursts |-> st.bursts
                                    \cup { Burst(n, st.ps, a.ps) }
                                    \cup (IF in.surprise THEN { Burst(in.count, a.ps, b.ps) }
                                          ELSE {})],
                        es, ins, j + 1)

\* the emitters after Game.Update: each phase advanced by its speed
movedEmitters(es) == [j \in DOMAIN es |-> [es[j] EXCEPT !.phase = es[j].phase + es[j].speed]]

\* the off-screen test of the show's Game.Update
Show_offScreen(p) ==
    \/ p.x < -200 * FP
    \/ p.x > (Show_screenWidth + 200) * FP
    \/ p.y < -300 * FP
    \/ p.y > (Show_screenHeight + 400) * FP

\* the body of Game.Update's loop "update particles" for one slot
Show_updateParticle(p, r) ==
    IF p.active
    THEN LET q == Show_update(p, r) IN
         IF Show_offScreen(q) THEN release(q) ELSE q
    ELSE p

-----------------------------------------------------------------------------
(* helpers of the model *)

\* the camera of a program that has none
NoCamera == [siny |-> 0, cosy |-> 0, sinp |-> 0, cosp |-> 0]

\* the buffers of a program that has none
NoBatches == << >>

\* the history variable calls before the show's first Update, and in the other programs
NoCalls == [total |-> 0, each |-> << >>, extra |-> 0]

\* the history variable since after an Update that started with pool p0 and spawned into m
NextSince(p0, m) ==
    [i \in DOMAIN since |->
        IF i \in DOMAIN p0 /\ p0[i].active THEN since[i] + 1
        ELSE IF i \in DOMAIN m /\ m[i].active THEN 1
        ELSE 0]

\* the history variable uses after an Update that started with pool p0 and spawned into m
NextUses(p0, m) ==
    [i \in DOMAIN uses |->
        IF i \in DOMAIN p0 /\ i \in DOMAIN m /\ ~p0[i].active /\ m[i].active
        THEN uses[i] + 1 ELSE uses[i]]

-----------------------------------------------------------------------------
(* inputs: values the calls of math/rand and the mouse can deliver *)

\* draws of newParticle(.., TypeSmoke): angle in [pi/2, 5pi/6), speed in [0.1, 0.5)
SmokeDraws ==
    { [jx |-> -2 * FP, jy |-> 0, angle |-> 0, angularVelocity |-> (5 * FP) \div 100,
       lifeRoll |-> 0, vx |-> 0, vy |-> (-90 * FP) \div 100, bvx |-> 0, bvy |-> 0],
      [jx |-> (199 * FP) \div 100, jy |-> FP, angle |-> 6 * FP, angularVelocity |-> 0,
       lifeRoll |-> 59, vx |-> (-42 * FP) \div 100, vy |-> (-75 * FP) \div 100,
       bvx |-> 0, bvy |-> 0] }

\* draws of spawnExplosion: newParticle(.., TypeFire), then blastSpeed in [3, 10)
FireDraws ==
    { [jx |-> -2 * FP, jy |-> 0, angle |-> 0, angularVelocity |-> (-5 * FP) \div 100,
       lifeRoll |-> 0, vx |-> 0, vy |-> 2 * FP, bvx |-> (-990 * FP) \div 100, bvy |-> 0],
      [jx |-> FP, jy |-> -FP, angle |-> 3 * FP, angularVelocity |-> (5 * FP) \div 100,
       lifeRoll |-> 1, vx |-> FP \div 2, vy |-> 3 * FP, bvx |-> 3 * FP, bvy |-> 0] }

\* ebiten.CursorPosition() at a click
ClickPositions == { <<0, 240>> }

NoClick == <<>>

\* draws of newFireParticle: speed in [2, 6), vx = cos*speed*0.3, vy = sin*speed*0.7
ConcertDraws ==
    { [jx |-> -2 * FP, jy |-> 0, z |-> -FP, angle |-> 0, angularVelocity |-> FP \div 10,
       lifeRoll |-> 0, vx |-> (-170 * FP) \div 100, vy |-> 0, vz |-> FP \div 2],
      [jx |-> FP, jy |-> FP, z |-> (99 * FP) \div 100, angle |-> 3 * FP,
       angularVelocity |-> (-9 * FP) \div 100,
       lifeRoll |-> 2, vx |-> 0, vy |-> (-400 * FP) \div 100, vz |-> (-49 * FP) \div 100] }

-----------------------------------------------------------------------------
(* src/unnamed/part_000: NewGame and Game.Update *)

\* a NewGame whose prefill loop runs once too often (i <= maxParticles)
NewGamePool_oneMore ==
    [i \in 1..(MaxParticles + 1) |->
        [active |-> FALSE, pType |-> TypeSmoke, x |-> 0, y |-> 0, angle |-> 0,
         angularVelocity |-> 0, lifetime |-> 0, maxLife |-> 0, vx |-> 0, vy |-> 0]]

\* the pool NewGame builds: &Particle{active: false}, every other field zero
NewGamePool ==
    [i \in 1..MaxParticles |->
        [active |-> FALSE, pType |-> TypeSmoke, x |-> 0, y |-> 0, angle |-> 0,
         angularVelocity |-> 0, lifetime |-> 0, maxLife |-> 0, vx |-> 0, vy |-> 0]]

\* the permanent smoke emitter of NewGame
NewGameEmitters ==
    << [x |-> (screenWidth \div 2) * FP, y |-> (screenHeight - 50) * FP,
        rate |-> 3, pType |-> TypeSmoke, counter |-> 0] >>

InitSmokeFire ==
    /\ prog = "smokefire"
    /\ particles = NewGamePool
    /\ emitters = NewGameEmitters

\* Game.Update of part_000: click explosion, emitter spawn, integration
UpdateSmokeFire ==
    /\ prog = "smokefire"
    /\ emitters[1].counter < MaxTicks
    /\ \E click \in {NoClick} \cup (IF clicks < MaxClicks THEN ClickPositions ELSE {}) :
       \E ds \in [1..(IF click = NoClick THEN 0 ELSE Min(500, FreeCount(particles))) -> FireDraws] :
          LET p1 == IF click = NoClick THEN particles
                    ELSE spawnExplosion(particles, click[1] * FP, click[2] * FP, ds)
              e == emitters[1]
          IN \E es \in [1..(IF spawnFires(e) THEN Min(2, FreeCount(p1)) ELSE 0) -> SmokeDraws] :
                LET p2 == spawn(p1, e, es) IN
                /\ particles' = [i \in DOMAIN p2 |-> updateParticle(p2[i])]
                /\ emitters' = << spawnEmitter(e) >>
                /\ mid' = p2
                /\ bursts' = (IF click = NoClick THEN {} ELSE { Burst(500, particles, p1) })
                             \cup (IF spawnFires(e) THEN { Burst(2, p1, p2) } ELSE {})
                /\ since' = NextSince(particles, p2)
                /\ uses' = NextUses(particles, p2)
                /\ clicks' = IF click = NoClick THEN clicks ELSE clicks + 1
    /\ ret' = "nil"
    /\ calls' = calls
    /\ drawn' = drawn
    /\ UNCHANGED <<camera, batches>>
    /\ UNCHANGED <<prog, tick>>

-----------------------------------------------------------------------------
(* src/Concert.main.go: NewGame and Game.Update *)

\* a NewGame whose prefill loop stops one slot short
Concert_NewGamePool_oneLess ==
    [i \in 1..(MaxParticles - 1) |->
        [active |-> FALSE, x |-> 0, y |-> 0, z |-> 0, angle |-> 0,
         angularVelocity |-> 0, lifetime |-> 0, maxLife |-> 0,
         vx |-> 0, vy |-> 0, vz |-> 0]]

\* the pool NewGame builds: &Particle{}
Concert_NewGamePool ==
    [i \in 1..MaxParticles |->
        [active |-> FALSE, x |-> 0, y |-> 0, z |-> 0, angle |-> 0,
         angularVelocity |-> 0, lifetime |-> 0, maxLife |-> 0,
         vx |-> 0, vy |-> 0, vz |-> 0]]

InitConcert ==
    /\ prog = "concert"
    /\ particles = Concert_NewGamePool
    /\ emitters = << >>

\* an Update of Concert.main.go that integrates the pool before it spawns
UpdateConcert_integrateFirst ==
    /\ prog = "concert"
    /\ \E click \in {NoClick} \cup (IF clicks < MaxClicks THEN ClickPositions ELSE {}) :
       \E ds \in [1..(IF click = NoClick THEN 0 ELSE Min(600, FreeCount(particles))) -> ConcertDraws] :
          LET p0 == [i \in DOMAIN particles |-> Concert_updateParticle(particles[i])]
              p1 == IF click = NoClick THEN p0
                    ELSE Concert_spawnExplosion(p0, click[1] * FP, click[2] * FP, ds)
          IN /\ particles' = p1
             /\ mid' = p1
             /\ bursts' = (IF click = NoClick THEN {} ELSE { Burst(600, p0, p1) })
             /\ since' = NextSince(particles, p1)
             /\ uses' = NextUses(particles, p1)
             /\ clicks' = IF click = NoClick THEN clicks ELSE clicks + 1
    /\ ret' = "nil"
    /\ calls' = calls
    /\ drawn' = drawn
    /\ UNCHANGED <<camera, batches>>
    /\ UNCHANGED <<prog, emitters, tick>>

\* Game.Update of Concert.main.go: click explosion, integration
UpdateConcert ==
    /\ prog = "concert"
    /\ \E click \in {NoClick} \cup (IF clicks < MaxClicks THEN ClickPositions ELSE {}) :
       \E ds \in [1..(IF click = NoClick THEN 0 ELSE Min(600, FreeCount(particles))) -> ConcertDraws] :
          LET p1 == IF click = NoClick THEN particles
                    ELSE Concert_spawnExplosion(particles, click[1] * FP, click[2] * FP, ds)
          IN /\ particles' = [i \in DOMAIN p1 |-> Concert_updateParticle(p1[i])]
             /\ mid' = p1
             /\ bursts' = (IF click = NoClick THEN {} ELSE { Burst(600, particles, p1) })
             /\ since' = NextSince(particles, p1)
             /\ uses' = NextUses(particles, p1)
             /\ clicks' = IF click = NoClick THEN clicks ELSE clicks + 1
    /\ ret' = "nil"
    /\ calls' = calls
    /\ drawn' = drawn
    /\ UNCHANGED <<camera, batches>>
    /\ UNCHANGED <<prog, emitters, tick>>

-----------------------------------------------------------------------------
(* src/amazing.main.go, lines 1-455: inputs, NewGame and Game.Update *)

\* draws of spawnAt: fire speed in [1.2, 7), ember vx in (-0.6, 0.6), vy in (-0.8, -0.2]
ShowDraws ==
    { [jx |-> -6 * FP, jy |-> 0, z |-> -FP, angle |-> 0, angularVelocity |-> (12 * FP) \div 100,
       lifeRoll |-> 0, vx |-> (50 * FP) \div 100, vy |-> FP, vz |-> (-60 * FP) \div 100,
       emberLifeRoll |-> 0, emberAngularVelocity |-> (3 * FP) \div 100,
       emberVx |-> (-60 * FP) \div 100, emberVy |-> (-20 * FP) \div 100,
       emberVz |-> (15 * FP) \div 100],
      [jx |-> 5 * FP, jy |-> -6 * FP, z |-> (119 * FP) \div 100, angle |-> 6 * FP,
       angularVelocity |-> (-12 * FP) \div 100,
       lifeRoll |-> 49, vx |-> (-100 * FP) \div 100, vy |-> -8 * FP, vz |-> (59 * FP) \div 100,
       emberLifeRoll |-> 0, emberAngularVelocity |-> (3 * FP) \div 100,
       emberVx |-> (-60 * FP) \div 100, emberVy |-> (-20 * FP) \div 100,
       emberVz |-> (15 * FP) \div 100] }

\* what one emitter reads in one Update: its orbit position (ex, ey), which the
\* jitter (rand.Float64()*2-1)*20 of each spawn leaves as it is here, its pulse,
\* rand.Float64() of the jittered count, and the surprise burst
\* (rand.Float64() < 0.003) with its count 220 + rand.Intn(480).  A fire emitter can
\* orbit up to the top edge; an ember emitter stays in the lower half of the screen.
EmitterInputs(e) ==
    IF e.kind = KindEmber
    THEN { [ex |-> 640 * FP, ey |-> 500 * FP, pulse |-> FP, r |-> 0,
            surprise |-> FALSE, count |-> 0] }
    ELSE { [ex |-> 640 * FP, ey |-> 0, pulse |-> 0, r |-> 0,
            surprise |-> FALSE, count |-> 0],
           [ex |-> 640 * FP, ey |-> 0, pulse |-> FP, r |-> FP \div 2,
            surprise |-> TRUE, count |-> 220] }

\* (rand.Float64()*2 - 1) * 0.02 of an ember's update
WobbleDraws == { 0, (19 * FP) \div 1000 }

\* px, py of the space burst: rand.Intn(screenWidth), rand.Intn(screenHeight/2) + screenHeight/3
SpacePositions == { <<640, 300>> }

\* the pool NewGame builds: &Particle{}
Show_NewGamePool ==
    [i \in 1..MaxParticles |->
        [active |-> FALSE, kind |-> KindFire, x |-> 0, y |-> 0, z |-> 0, angle |-> 0,
         angularVelocity |-> 0, lifetime |-> 0, maxLife |-> 0,
         vx |-> 0, vy |-> 0, vz |-> 0]]

\* the emitters of NewGame, one of each kind (NewGame makes 6 fire and 3 ember
\* emitters); the orbit fields cx, cy, radius, pulseWidth, offsetY only feed the
\* position and the pulse, which are inputs here
Show_NewGameEmitters ==
    << [kind |-> KindFire, baseSpawn |-> 6, phase |-> 0, speed |-> (2 * FP) \div 1000],
       [kind |-> KindEmber, baseSpawn |-> 2, phase |-> FP, speed |-> (1 * FP) \div 1000] >>

InitShow ==
    /\ prog = "show"
    /\ particles = Show_NewGamePool
    /\ emitters = Show_NewGameEmitters

\* the sequences that hold one element of sets[k] for every k from j on
RECURSIVE InputChoices(_, _)
InputChoices(sets, j) ==
    IF j > Len(sets) THEN { << >> }
    ELSE { <<x>> \o r : x \in sets[j], r \in InputChoices(sets, j + 1) }

\* the number of input bursts among a click, a space press and the surprise bursts
InputBursts(click, space, ins) ==
    (IF click = NoClick THEN 0 ELSE 1) + (IF space = NoClick THEN 0 ELSE 1)
    + Cardinality({j \in DOMAIN ins : ins[j].surprise})

\* Game.Update of the show: click burst, space burst, emitters, integration;
\* inputs[j] are the inputs emitter j may get, in at most maxTicks calls with at most
\* maxBursts input bursts
ShowUpdate(inputs, maxTicks, maxBursts) ==
    /\ tick < maxTicks
    /\ \E click \in {NoClick} \cup ClickPositions, space \in {NoClick} \cup SpacePositions :
       \E ins \in InputChoices(inputs, 1) :
       /\ clicks + InputBursts(click, space, ins) <= maxBursts
       /\ clicks' = clicks + InputBursts(click, space, ins)
       /\ \E ds \in [1..FreeCount(particles) -> ShowDraws] :
          \E s1 \in { IF click = NoClick THEN [ps |-> particles, ds |-> ds]
                       ELSE spawnBurst([ps |-> particles, ds |-> ds],
                                       click[1] * FP, click[2] * FP, 900) } :
          \E s2 \in { IF space = NoClick THEN s1
                       ELSE spawnBurst(s1, space[1] * FP, space[2] * FP, 1200) } :
          \E s3 \in { emitterLoop([ps |-> s2.ps, ds |-> s2.ds, total |-> 0, each |-> << >>,
                                    extra |-> 0, bursts |-> {}],
                                   emitters, ins, 1) } :
             \* draws nobody used are not inputs: one of each is enough
             /\ \A i \in DOMAIN s3.ds : s3.ds[i] = CHOOSE d \in ShowDraws : d.lifeRoll = 0
             /\ \E rs \in [DOMAIN s3.ps -> WobbleDraws] :
                   /\ \A i \in DOMAIN rs :
                         rs[i] # 0 => s3.ps[i].active /\ s3.ps[i].kind = KindEmber
                   /\ (\E i \in DOMAIN rs : rs[i] # 0) => tick < MaxWobbleTicks
                   /\ particles' = [i \in DOMAIN s3.ps |-> Show_updateParticle(s3.ps[i], rs[i])]
             /\ mid' = s3.ps
             /\ bursts' = (IF click = NoClick THEN {} ELSE { Burst(900, particles, s1.ps) })
                          \cup (IF space = NoClick THEN {} ELSE { Burst(1200, s1.ps, s2.ps) })
                          \cup s3.bursts
             /\ since' = NextSince(particles, s3.ps)
             /\ uses' = NextUses(particles, s3.ps)
             /\ calls' = [total |-> s3.total, each |-> s3.each, extra |-> s3.extra]
             /\ drawn' = drawn
             /\ UNCHANGED <<camera, batches>>
    /\ emitters' = movedEmitters(emitters)
    /\ tick' = tick + 1
    /\ ret' = "nil"
    /\ UNCHANGED prog

UpdateShow ==
    /\ prog = "show"
    /\ ShowUpdate([j \in DOMAIN emitters |-> EmitterInputs(emitters[j])], MaxTicks, MaxClicks)

-----------------------------------------------------------------------------
(* the specification *)

Init ==
    /\ InitSmokeFire \/ InitConcert \/ InitShow
    /\ tick = 0
    /\ clicks = 0
    /\ mid = particles
    /\ bursts = {}
    /\ since = [i \in DOMAIN particles |-> 0]
    /\ uses = [i \in DOMAIN particles |-> 0]
    /\ ret = "nil"
    /\ calls = NoCalls
    /\ drawn = << >>
    /\ camera = NoCamera
    /\ batches = NoBatches

Next == UpdateSmokeFire \/ UpdateConcert \/ UpdateShow

Spec == Init /\ [][Next]_vars

-----------------------------------------------------------------------------
(* Scenario 1 on the operators of src/unnamed/part_000.  The scenario is not a   *)
(* run of the program: NewGame builds 10000 slots, an Emitter.spawn that fires   *)
(* makes two particles, and rand.Intn(60) + 240 is never 5.  A tick of the       *)
(* scenario is therefore driven directly: one call of allocateParticle, whose    *)
(* slot gets a newParticle with maxLife set to S1_Lifespan, and then the update  *)
(* loop of Game.Update over the S1_Capacity slots.                               *)

\* ticks of a scenario behaviour
S1_MaxTicks == 9

\* slots of the pool
S1_Capacity == 10

\* maxLife of every particle
S1_Lifespan == 5

\* a pool as NewGame builds it, with the capacity of the scenario
S1_Pool ==
    [i \in 1..S1_Capacity |->
        [active |-> FALSE, pType |-> TypeSmoke, x |-> 0, y |-> 0, angle |-> 0,
         angularVelocity |-> 0, lifetime |-> 0, maxLife |-> 0, vx |-> 0, vy |-> 0]]

\* the pool after the one spawn of a tick: the slot allocateParticle returns
\* holds a smoke particle made at the emitter of NewGame, its maxLife replaced
\* by the lifespan of the scenario; a full pool is left as it is
S1_spawnOne(ps, k, d) ==
    IF k = 0 THEN ps
    ELSE [ps EXCEPT ![k] = [newParticle(NewGameEmitters[1].x, NewGameEmitters[1].y,
                                        TypeSmoke, d) EXCEPT !.maxLife = S1_Lifespan]]

InitScenario1 ==
    /\ prog = "scenario1"
    /\ particles = S1_Pool
    /\ emitters = << >>
    /\ tick = 0
    /\ clicks = 0
    /\ mid = particles
    /\ bursts = {}
    /\ since = [i \in DOMAIN particles |-> 0]
    /\ uses = [i \in DOMAIN particles |-> 0]
    /\ ret = "nil"
    /\ calls = NoCalls
    /\ drawn = << >>
    /\ camera = NoCamera
    /\ batches = NoBatches

\* one tick of the scenario: one particle is spawned, then every slot is put
\* through the update loop of Game.Update; mid holds the pool between the two
TickScenario1 ==
    /\ prog = "scenario1"
    /\ tick < S1_MaxTicks
    /\ \E d \in SmokeDraws :
       \E p1 \in { S1_spawnOne(particles, allocateParticle(particles), d) } :
          /\ particles' = [i \in DOMAIN p1 |-> updateParticle(p1[i])]
          /\ mid' = p1
          /\ bursts' = { Burst(1, particles, p1) }
          /\ since' = NextSince(particles, p1)
          /\ uses' = NextUses(particles, p1)
    /\ tick' = tick + 1
    /\ ret' = "nil"
    /\ calls' = calls
    /\ drawn' = drawn
    /\ UNCHANGED <<camera, batches>>
    /\ UNCHANGED <<prog, clicks, emitters>>

SpecScenario1 == InitScenario1 /\ [][TickScenario1]_vars

-----------------------------------------------------------------------------
(* The loop body of Game.Update as a function of one slot: every particle of   *)
(* a bounded set is put through it once, also particles no run produces.       *)

\* particles of part_000 around the expiry tick and around the margin
ReleaseInputs ==
    { [active |-> a, pType |-> TypeFire, x |-> x, y |-> y, angle |-> 0,
       angularVelocity |-> 0, lifetime |-> l, maxLife |-> 45, vx |-> vx, vy |-> 0] :
        a \in BOOLEAN, l \in {0, 43, 44},
        x \in {-101 * FP, -100 * FP, 0, 741 * FP}, y \in {0, 681 * FP},
        vx \in {-FP, 0} }

\* particles of the show around the expiry tick and around the margin
Show_ReleaseInputs ==
    { [active |-> a, kind |-> k, x |-> x, y |-> y, z |-> 0, angle |-> 0,
       angularVelocity |-> 0, lifetime |-> l, maxLife |-> 30, vx |-> 0, vy |-> 0, vz |-> 0] :
        a \in BOOLEAN, k \in {KindFire, KindEmber}, l \in {0, 28, 29},
        x \in {-201 * FP, 0, 1481 * FP}, y \in {0, 1121 * FP} }

InitRelease ==
    /\ \/ prog = "release" /\ \E p \in ReleaseInputs : particles = << p >>
       \/ prog = "releaseShow" /\ \E p \in Show_ReleaseInputs : particles = << p >>
    /\ emitters = << >>
    /\ tick = 0
    /\ clicks = 0
    /\ mid = particles
    /\ bursts = {}
    /\ since = [i \in DOMAIN particles |-> 0]
    /\ uses = [i \in DOMAIN particles |-> 0]
    /\ ret = "nil"
    /\ calls = NoCalls
    /\ drawn = << >>
    /\ camera = NoCamera
    /\ batches = NoBatches

\* one pass of the loop "update particles" of part_000
StepRelease ==
    /\ prog = "release"
    /\ tick = 0
    /\ particles' = [i \in DOMAIN particles |-> updateParticle(particles[i])]
    /\ mid' = particles
    /\ tick' = 1
    /\ UNCHANGED <<prog, emitters, clicks, bursts, since, uses, ret, calls, drawn, camera, batches>>

\* one pass of the loop "update particles" of the show
StepReleaseShow ==
    /\ prog = "releaseShow"
    /\ tick = 0
    /\ \E r \in WobbleDraws :
          particles' = [i \in DOMAIN particles |-> Show_updateParticle(particles[i], r)]
    /\ mid' = particles
    /\ tick' = 1
    /\ UNCHANGED <<prog, emitters, clicks, bursts, since, uses, ret, calls, drawn, camera, batches>>

NextRelease == StepRelease \/ StepReleaseShow

SpecRelease == InitRelease /\ [][NextRelease]_vars

-----------------------------------------------------------------------------
(* src/smoke.main.go: one smoke emitter, a pool that grows with the spawns *)

\* Update calls of a behaviour of smoke.main.go
Smoke_MaxTicks == 6

\* maxParticles of smoke.main.go
Smoke_maxParticles == 8000

\* Update calls of the run of smoke.main.go with the capacity of the source
Full_MaxTicks == 305
\* the first Update calls of that run, whose random draws are varied; later ones
\* spawn a particle of the longest life
Full_VariedTicks == 2

\* the capacity of the lazily grown pool: MaxParticles in the program "smoke", the
\* maxParticles of the source in the program "smokefull"
Smoke_capacity == IF prog = "smoke" THEN MaxParticles ELSE Smoke_maxParticles

\* a Particle.update of smoke.main.go that lets a particle live one tick longer
Smoke_update_late(p) ==
    IF ~p.active THEN p
    ELSE LET q == [p EXCEPT !.lifetime = p.lifetime + 1] IN
         IF q.lifetime > q.maxLife
         THEN [q EXCEPT !.active = FALSE]
         ELSE [q EXCEPT !.x = q.x + q.vx,
                        !.y = q.y + q.vy,
                        !.angle = q.angle + q.angularVelocity]

\* Particle.update of smoke.main.go
Smoke_update(p) ==
    IF ~p.active THEN p
    ELSE LET q == [p EXCEPT !.lifetime = p.lifetime + 1] IN
         IF q.lifetime >= q.maxLife
         THEN [q EXCEPT !.active = FALSE]
         ELSE [q EXCEPT !.x = q.x + q.vx,
                        !.y = q.y + q.vy,
                        !.angle = q.angle + q.angularVelocity]

\* newParticle of smoke.main.go; d holds the values the calls of math/rand return
\* (d.lifeRoll = rand.IntN(60), d.vx, d.vy = the velocity computed from the drawn
\* angle and speed, with the updraft)
Smoke_newParticle(emitterX, emitterY, d) ==
    [active |-> TRUE, maxLife |-> d.lifeRoll + 240, lifetime |-> 0,
     x |-> emitterX, y |-> emitterY, vx |-> d.vx, vy |-> d.vy,
     angle |-> d.angle, angularVelocity |-> d.angularVelocity]

\* &Particle{}
Smoke_ZeroParticle ==
    [active |-> FALSE, maxLife |-> 0, lifetime |-> 0, x |-> 0, y |-> 0, vx |-> 0, vy |-> 0,
     angle |-> 0, angularVelocity |-> 0]

\* an allocateParticle of smoke.main.go that grows the pool before it looks for an
\* inactive slot
Smoke_allocateParticle_growFirst(ps) ==
    IF Len(ps) < Smoke_capacity
    THEN [ps |-> Append(ps, Smoke_ZeroParticle), k |-> Len(ps) + 1]
    ELSE [ps |-> ps, k |-> scan(ps, 1)]

\* Game.allocateParticle of smoke.main.go: the pool after the call and the index k
\* of the slot returned, 0 for nil
Smoke_allocateParticle(ps) ==
    IF scan(ps, 1) # 0 THEN [ps |-> ps, k |-> scan(ps, 1)]
    ELSE IF Len(ps) < Smoke_capacity
         THEN [ps |-> Append(ps, Smoke_ZeroParticle), k |-> Len(ps) + 1]
         ELSE [ps |-> ps, k |-> 0]

\* the emitter of Game.Update: the pool after it; roll is rand.IntN(3)
Smoke_emit(ps, e, roll, d) ==
    IF Len(ps) < Smoke_capacity /\ roll < 2
    THEN LET a == Smoke_allocateParticle(ps) IN
         IF a.k # 0 THEN [a.ps EXCEPT ![a.k] = Smoke_newParticle(e.x, e.y, d)] ELSE a.ps
    ELSE ps

\* draws of newParticle: angle in [pi/6, 5pi/6], speed in [0.1, 0.5), updraft -1
Smoke_Draws ==
    { [lifeRoll |-> 0, vx |-> 0, vy |-> (-90 * FP) \div 100, angle |-> 0,
       angularVelocity |-> (2 * FP) \div 100],
      [lifeRoll |-> 59, vx |-> (-42 * FP) \div 100, vy |-> (-75 * FP) \div 100,
       angle |-> 6 * FP, angularVelocity |-> (-1 * FP) \div 100] }

\* rand.IntN(3) of the emitter: below 2 it spawns
Smoke_Rolls == {0, 2}

\* rand.Float64()*0.5 - 0.25 of the emitter's drift
Smoke_Drifts == { (20 * FP) \div 100 }

\* &Game{}: particles is nil until the first Update, which tick = 0 stands for
InitSmoke ==
    /\ prog = "smoke"
    /\ particles = << >>
    /\ emitters = << [x |-> 0, y |-> 0] >>
    /\ tick = 0
    /\ clicks = 0
    /\ mid = particles
    /\ bursts = {}
    /\ since = << >>
    /\ uses = << >>
    /\ ret = "nil"
    /\ calls = NoCalls
    /\ drawn = << >>
    /\ camera = NoCamera
    /\ batches = NoBatches

\* Game.Update of smoke.main.go: first-call set-up, emitter, integration, drift
SmokeUpdate(rolls, draws) ==
    /\ \E roll \in rolls, drift \in Smoke_Drifts :
       \E d \in (IF Len(particles) < Smoke_capacity /\ roll < 2
                 THEN draws ELSE { CHOOSE c \in Smoke_Draws : c.lifeRoll = 0 }) :
          LET e == IF tick = 0
                   THEN [x |-> (640 \div 2) * FP, y |-> (480 \div 2) * FP]
                   ELSE emitters[1]
              p1 == Smoke_emit(particles, e, roll, d)
          IN /\ particles' = [i \in DOMAIN p1 |-> IF p1[i].active THEN Smoke_update(p1[i])
                                                  ELSE p1[i]]
             /\ mid' = p1
             /\ bursts' = IF Len(particles) < Smoke_capacity /\ roll < 2
                          THEN { [n |-> 1, free |-> Smoke_capacity - ActiveCount(particles),
                                  made |-> ActiveCount(p1) - ActiveCount(particles)] }
                          ELSE {}
             /\ since' = [i \in DOMAIN p1 |->
                             IF i \in DOMAIN particles /\ particles[i].active THEN since[i] + 1
                             ELSE IF p1[i].active THEN 1 ELSE 0]
             /\ uses' = [i \in DOMAIN p1 |->
                            IF i \in DOMAIN particles
                            THEN (IF ~particles[i].active /\ p1[i].active
                                  THEN uses[i] + 1 ELSE uses[i])
                            ELSE 1]
             /\ emitters' = << [x |-> e.x + drift, y |-> e.y - FP \div 10] >>
    /\ tick' = tick + 1
    /\ ret' = "nil"
    /\ calls' = calls
    /\ drawn' = drawn
    /\ UNCHANGED <<camera, batches>>
    /\ UNCHANGED <<prog, clicks>>

\* Game.Update of smoke.main.go with the pool scaled to MaxParticles
UpdateSmoke ==
    /\ prog = "smoke"
    /\ tick < Smoke_MaxTicks
    /\ SmokeUpdate(Smoke_Rolls, Smoke_Draws)

\* &Game{} of the run with the capacity of the source
InitSmokeFull ==
    /\ prog = "smokefull"
    /\ particles = << >>
    /\ emitters = << [x |-> 0, y |-> 0] >>
    /\ tick = 0
    /\ clicks = 0
    /\ mid = particles
    /\ bursts = {}
    /\ since = << >>
    /\ uses = << >>
    /\ ret = "nil"
    /\ calls = NoCalls
    /\ drawn = << >>
    /\ camera = NoCamera
    /\ batches = NoBatches

\* rand.IntN(3) in the run with the capacity of the source
Full_Rolls == IF tick < Full_VariedTicks THEN Smoke_Rolls ELSE {0}

\* the draws of newParticle in that run
Full_Draws ==
    IF tick < Full_VariedTicks THEN Smoke_Draws ELSE { d \in Smoke_Draws : d.lifeRoll = 59 }

\* Game.Update of smoke.main.go with maxParticles = 8000
UpdateSmokeFull ==
    /\ prog = "smokefull"
    /\ tick < Full_MaxTicks
    /\ SmokeUpdate(Full_Rolls, Full_Draws)

InitSmokeBoth == InitSmoke \/ InitSmokeFull

NextSmoke == UpdateSmoke \/ UpdateSmokeFull

SpecSmoke == InitSmokeBoth /\ [][NextSmoke]_vars

\* the four pooled programs side by side
InitPools == Init \/ InitSmoke

NextPools == UpdateSmokeFire \/ UpdateConcert \/ UpdateShow \/ UpdateSmoke

SpecPools == InitPools /\ [][NextPools]_vars

-----------------------------------------------------------------------------
(* src/unnamed/part_000: Emitter.spawn applied to emitters of any rate *)

\* calls of Emitter.spawn in a behaviour
Emitter_MaxTicks == 8

\* values of Emitter.rate at construction; 1 is left out, so that a rate of 1
\* is always the work of Emitter.spawn
Emitter_Rates == {-1, 0, 2, 3}

InitEmitter ==
    /\ prog = "emitter"
    /\ particles = NewGamePool
    /\ \E r \in Emitter_Rates : emitters = << [NewGameEmitters[1] EXCEPT !.rate = r] >>
    /\ tick = 0
    /\ clicks = 0
    /\ mid = particles
    /\ bursts = {}
    /\ since = [i \in DOMAIN particles |-> 0]
    /\ uses = [i \in DOMAIN particles |-> 0]
    /\ ret = "nil"
    /\ calls = NoCalls
    /\ drawn = << >>
    /\ camera = NoCamera
    /\ batches = NoBatches

\* one call e.spawn(g)
StepEmitter ==
    /\ prog = "emitter"
    /\ tick < Emitter_MaxTicks
    /\ \E e \in {emitters[1]} :
       \E es \in [1..(IF spawnFires(e) THEN Min(2, FreeCount(particles)) ELSE 0) -> SmokeDraws] :
       \E p2 \in {spawn(particles, e, es)} :
          /\ particles' = p2
          /\ emitters' = << spawnEmitter(e) >>
          /\ mid' = p2
          /\ bursts' = IF spawnFires(e) THEN { Burst(2, particles, p2) } ELSE {}
          /\ since' = NextSince(particles, p2)
          /\ uses' = NextUses(particles, p2)
    /\ tick' = tick + 1
    /\ ret' = "nil"
    /\ calls' = calls
    /\ drawn' = drawn
    /\ UNCHANGED <<camera, batches>>
    /\ UNCHANGED <<prog, clicks>>

SpecEmitter == InitEmitter /\ [][StepEmitter]_vars

-----------------------------------------------------------------------------
(* src/amazing.main.go: the show with all nine emitters of NewGame *)

\* Update calls of a behaviour of the show with nine emitters
Caps_MaxTicks == 2
\* input bursts (mouse clicks, space presses, surprise bursts) of such a behaviour
Caps_MaxBursts == 2

\* baseSpawn of the fire emitters, 6 + rand.Intn(12): the least and the greatest
Caps_FireBaseSpawns == {6, 17}

\* the emitters of NewGame: six fire emitters of baseSpawn b, three ember emitters
\* of the greatest baseSpawn, 2 + rand.Intn(3)
Caps_NewGameEmitters(b) ==
    [j \in 1..9 |->
        IF j <= 6
        THEN [kind |-> KindFire, baseSpawn |-> b, phase |-> 0, speed |-> (2 * FP) \div 1000]
        ELSE [kind |-> KindEmber, baseSpawn |-> 4, phase |-> FP, speed |-> (1 * FP) \div 1000]]

\* inputs of one emitter: a full pulse with the greatest jitter, or no pulse, the
\* least jitter and a surprise burst of the least count
Caps_EmitterInputs(e) ==
    IF e.kind = KindEmber
    THEN { [ex |-> 640 * FP, ey |-> 500 * FP, pulse |-> FP, r |-> 0,
            surprise |-> FALSE, count |-> 0] }
    ELSE { [ex |-> 640 * FP, ey |-> 0, pulse |-> FP, r |-> (999 * FP) \div 1000,
            surprise |-> FALSE, count |-> 0],
           [ex |-> 640 * FP, ey |-> 0, pulse |-> 0, r |-> 0,
            surprise |-> TRUE, count |-> 220] }

InitCaps ==
    /\ prog = "caps"
    /\ particles = Show_NewGamePool
    /\ \E b \in Caps_FireBaseSpawns : emitters = Caps_NewGameEmitters(b)
    /\ tick = 0
    /\ clicks = 0
    /\ mid = particles
    /\ bursts = {}
    /\ since = [i \in DOMAIN particles |-> 0]
    /\ uses = [i \in DOMAIN particles |-> 0]
    /\ ret = "nil"
    /\ calls = NoCalls
    /\ drawn = << >>
    /\ camera = NoCamera
    /\ batches = NoBatches

UpdateCaps ==
    /\ prog = "caps"
    /\ ShowUpdate([j \in DOMAIN emitters |-> Caps_EmitterInputs(emitters[j])],
                  Caps_MaxTicks, Caps_MaxBursts)

SpecCaps == InitCaps /\ [][UpdateCaps]_vars

-----------------------------------------------------------------------------
(* float64 arithmetic of the Go programs: every operation gives the exact result *)
(* rounded to a significand of 53 bits, to nearest, ties to even                 *)

\* a natural number is held as a sequence of limbs, least significant first
Limb == 2 ^ 15

RECURSIVE bigOfInt(_)
bigOfInt(n) == IF n = 0 THEN << >> ELSE << n % Limb >> \o bigOfInt(n \div Limb)

RECURSIVE bigToInt(_)
bigToInt(a) == IF a = << >> THEN 0 ELSE a[1] + Limb * bigToInt(Tail(a))

RECURSIVE bigTrim(_)
bigTrim(a) ==
    IF a = << >> THEN a
    ELSE IF a[Len(a)] # 0 THEN a
    ELSE bigTrim(SubSeq(a, 1, Len(a) - 1))

limbAt(a, i) == IF i <= Len(a) THEN a[i] ELSE 0

RECURSIVE bigAddFrom(_, _, _, _)
bigAddFrom(a, b, i, c) ==
    IF i > Len(a) /\ i > Len(b) THEN (IF c = 0 THEN << >> ELSE << c >>)
    ELSE << (limbAt(a, i) + limbAt(b, i) + c) % Limb >>
            \o bigAddFrom(a, b, i + 1, (limbAt(a, i) + limbAt(b, i) + c) \div Limb)

bigAdd(a, b) == bigAddFrom(a, b, 1, 0)

RECURSIVE bigSubFrom(_, _, _, _)
bigSubFrom(a, b, i, c) ==
    IF i > Len(a) THEN << >>
    ELSE << (a[i] - limbAt(b, i) - c) % Limb >>
            \o bigSubFrom(a, b, i + 1, IF a[i] - limbAt(b, i) - c < 0 THEN 1 ELSE 0)

\* a - b for a >= b
bigSub(a, b) == bigTrim(bigSubFrom(a, b, 1, 0))

RECURSIVE bigCmpAt(_, _, _)
bigCmpAt(a, b, i) ==
    IF i = 0 THEN 0
    ELSE IF a[i] > b[i] THEN 1
    ELSE IF a[i] < b[i] THEN -1
    ELSE bigCmpAt(a, b, i - 1)

\* 1, 0 or -1 as a is above, equal to or below b
bigCmp(a, b) ==
    IF Len(a) > Len(b) THEN 1 ELSE IF Len(a) < Len(b) THEN -1 ELSE bigCmpAt(a, b, Len(a))

RECURSIVE bigScaleFrom(_, _, _, _)
bigScaleFrom(a, k, i, c) ==
    IF i > Len(a) THEN (IF c = 0 THEN << >> ELSE << c >>)
    ELSE << (a[i] * k + c) % Limb >> \o bigScaleFrom(a, k, i + 1, (a[i] * k + c) \div Limb)

\* a * k for a factor k of one limb
bigScale(a, k) == IF k = 0 THEN << >> ELSE bigScaleFrom(a, k, 1, 0)

RECURSIVE bigMul(_, _)
bigMul(a, b) ==
    IF a = << >> \/ b = << >> THEN << >>
    ELSE bigAdd(bigScale(b, a[1]),
                IF Len(a) = 1 THEN << >> ELSE << 0 >> \o bigMul(Tail(a), b))

RECURSIVE bigDivFrom(_, _, _, _, _)
bigDivFrom(a, q, i, r, acc) ==
    IF i = 0 THEN << bigTrim(acc), r >>
    ELSE bigDivFrom(a, q, i - 1, (r * Limb + a[i]) % q, << (r * Limb + a[i]) \div q >> \o acc)

\* quotient and remainder of a by a divisor q below 2^16
bigDiv(a, q) == bigDivFrom(a, q, Len(a), 0, << >>)

\* a * 2^k
bigShl(a, k) == [i \in 1..(k \div 15) |-> 0] \o bigScale(a, 2 ^ (k % 15))

\* a \div 2^k
bigShr(a, k) ==
    IF k \div 15 >= Len(a) THEN << >>
    ELSE bigDiv(SubSeq(a, k \div 15 + 1, Len(a)), 2 ^ (k % 15))[1]

RECURSIVE bitLen(_)
bitLen(n) == IF n = 0 THEN 0 ELSE 1 + bitLen(n \div 2)

\* the number of bits of a
bigBits(a) == IF a = << >> THEN 0 ELSE 15 * (Len(a) - 1) + bitLen(a[Len(a)])

\* the largest digit d with d * b <= r, looked for from hat downwards
RECURSIVE digitFrom(_, _, _)
digitFrom(r, b, hat) ==
    IF bigCmp(bigScale(b, hat), r) <= 0 THEN hat ELSE digitFrom(r, b, hat - 1)

\* the first guess of a quotient digit, from the leading limbs of r and b
digitGuess(r, b) ==
    Min(Limb - 1, (limbAt(r, Len(b) + 1) * Limb + limbAt(r, Len(b))) \div b[Len(b)])

RECURSIVE bigLongDiv(_, _, _, _, _)
bigLongDivStep(a, b, i, r, d, acc) ==
    bigLongDiv(a, b, i - 1, bigSub(r, bigScale(b, d)), << d >> \o acc)

\* long division of the limbs i, i-1, .. 1 of a by b, with r carried in from
\* the limbs above; the leading limb of b is at least Limb / 2
bigLongDiv(a, b, i, r, acc) ==
    IF i = 0 THEN << bigTrim(acc), r >>
    ELSE bigLongDivStep(a, b, i, bigTrim(<< a[i] >> \o r),
                        digitFrom(bigTrim(<< a[i] >> \o r), b,
                                  digitGuess(bigTrim(<< a[i] >> \o r), b)),
                        acc)

bigQuotBy(a, b, s) == bigLongDiv(bigShl(a, s), bigShl(b, s), Len(bigShl(a, s)), << >>, << >>)

\* the quotient of a by b # 0, and a remainder that is zero exactly if b divides a
bigQuot(a, b) == bigQuotBy(a, b, 15 - bitLen(b[Len(b)]))

RECURSIVE intSqrtFrom(_, _)
intSqrtFrom(n, s) == IF (s + n \div s) \div 2 >= s THEN s ELSE intSqrtFrom(n, (s + n \div s) \div 2)

RECURSIVE bigSqrtFrom(_, _)
bigSqrtNext(n, s, t) == IF bigCmp(t, s) >= 0 THEN s ELSE bigSqrtFrom(n, t)

\* Newton's iteration for the integer square root of n from a guess s above it
bigSqrtFrom(n, s) == bigSqrtNext(n, s, bigDiv(bigAdd(s, bigQuot(n, s)[1]), 2)[1])

\* the integer square root of a number n of eight limbs
bigSqrt(n) ==
    bigSqrtFrom(n, << 0, 0, 0 >> \o bigOfInt(intSqrtFrom(n[7] + Limb * n[8], Limb) + 1))

Sgn(n) == IF n > 0 THEN 1 ELSE IF n < 0 THEN -1 ELSE 0

\* a float64 value is sgn * m * 2^x with a significand m of exactly 53 bits (the
\* values of the programs stay far from the subnormal and the infinite ones)
f64Zero == [sgn |-> 0, m |-> << >>, x |-> 0]

f64Carry(sgn, q, x) ==
    IF bigBits(q) = 54 THEN [sgn |-> sgn, m |-> bigShr(q, 1), x |-> x + 1]
    ELSE [sgn |-> sgn, m |-> q, x |-> x]

\* m * 2^x cut to the 53 bits q = m \div 2^k and rounded on what was cut off;
\* sticky says that m itself lost non-zero bits below its last one
f64RoundAt(sgn, m, x, sticky, k, q) ==
    LET c == bigCmp(bigScale(bigSub(m, bigShl(q, k)), 2), bigShl(<< 1 >>, k)) IN
    f64Carry(sgn,
             IF c > 0 \/ (c = 0 /\ (sticky \/ q[1] % 2 = 1)) THEN bigAdd(q, << 1 >>) ELSE q,
             x + k)

\* the float64 nearest to sgn * m * 2^x (a sticky m has 54 bits or more)
f64Round(sgn, m, x, sticky) ==
    IF m = << >> THEN f64Zero
    ELSE IF bigBits(m) <= 53
    THEN [sgn |-> sgn, m |-> bigShl(m, 53 - bigBits(m)), x |-> x - (53 - bigBits(m))]
    ELSE f64RoundAt(sgn, m, x, sticky, bigBits(m) - 53, bigShr(m, bigBits(m) - 53))

f64Quot(sgn, d, r, x) == f64Round(sgn, d[1], x, d[2] # 0 \/ r # 0)

\* the float64 nearest to p / (q1 * q2), for divisors below 2^16: the value a
\* decimal constant or input is stored as
f64Ratio(p, q1, q2) ==
    IF p = 0 THEN f64Zero
    ELSE LET d == bigDiv(bigShl(bigOfInt(Abs(p)), 90), q1) IN
         f64Quot(Sgn(p), bigDiv(d[1], q2), d[2], -90)

\* float64(n) of an integer
f64OfInt(n) == f64Round(Sgn(n), bigOfInt(Abs(n)), 0, FALSE)

f64OfRat(p, q) == f64Ratio(p, q, 1)

f64QuotBig(sgn, d, x) == f64Round(sgn, d[1], x, d[2] # << >>)

\* a / b for b # 0
f64Div(a, b) ==
    IF a.sgn = 0 THEN f64Zero
    ELSE f64QuotBig(a.sgn * b.sgn, bigQuot(bigShl(a.m, 60), b.m), a.x - b.x - 60)

\* a * b
f64Mul(a, b) ==
    IF a.sgn = 0 \/ b.sgn = 0 THEN f64Zero
    ELSE f64Round(a.sgn * b.sgn, bigMul(a.m, b.m), a.x + b.x, FALSE)

f64Neg(a) == [a EXCEPT !.sgn = -a.sgn]

f64Sum(sa, ma, sb, mb, x) ==
    IF sa = sb THEN f64Round(sa, bigAdd(ma, mb), x, FALSE)
    ELSE IF bigCmp(ma, mb) = 0 THEN f64Zero
    ELSE IF bigCmp(ma, mb) > 0 THEN f64Round(sa, bigSub(ma, mb), x, FALSE)
    ELSE f64Round(sb, bigSub(mb, ma), x, FALSE)

\* a + b
f64Add(a, b) ==
    IF a.sgn = 0 THEN b
    ELSE IF b.sgn = 0 THEN a
    ELSE IF a.x <= b.x THEN f64Sum(a.sgn, a.m, b.sgn, bigShl(b.m, b.x - a.x), a.x)
    ELSE f64Sum(a.sgn, bigShl(a.m, a.x - b.x), b.sgn, b.m, b.x)

\* a - b
f64Sub(a, b) == f64Add(a, f64Neg(b))

\* 1, 0 or -1 as |a| is above, equal to or below |b|, for a and b other than 0
f64CmpAbs(a, b) ==
    IF a.x > b.x THEN 1 ELSE IF a.x < b.x THEN -1 ELSE bigCmp(a.m, b.m)

\* 1, 0 or -1 as a is above, equal to or below b
f64Cmp(a, b) ==
    IF a.sgn # b.sgn THEN Sgn(a.sgn - b.sgn)
    ELSE IF a.sgn = 0 THEN 0
    ELSE a.sgn * f64CmpAbs(a, b)

\* a < b, a <= b
f64Less(a, b) == f64Cmp(a, b) < 0

f64LessEq(a, b) == f64Cmp(a, b) <= 0

\* math.Min, math.Abs
f64Min(a, b) == IF f64Less(b, a) THEN b ELSE a

f64Abs(a) == [a EXCEPT !.sgn = a.sgn * a.sgn]

\* math.Sqrt of a >= 0: the significand is moved up by 66 or 67 bits to an even
\* exponent, and the root of the eight limbs is rounded
f64SqrtRound(n, s, x) == f64Round(1, s, x \div 2, bigCmp(bigMul(s, s), n) # 0)

f64SqrtOf(n, x) == f64SqrtRound(n, bigSqrt(n), x)

f64Sqrt(a) ==
    IF a.sgn = 0 THEN f64Zero
    ELSE f64SqrtOf(bigShl(a.m, 66 + (a.x % 2)), a.x - 66 - (a.x % 2))

\* float32(a): the significand is cut from 53 to 24 bits and rounded to nearest,
\* ties to even; the result is held as the float64 of the same value
f32Of(a) ==
    IF a.sgn = 0 THEN f64Zero
    ELSE LET q == bigShr(a.m, 29)
             c == bigCmp(bigScale(bigSub(a.m, bigShl(q, 29)), 2), bigShl(<< 1 >>, 29)) IN
         f64Round(a.sgn, IF c > 0 \/ (c = 0 /\ q[1] % 2 = 1) THEN bigAdd(q, << 1 >>) ELSE q,
                  a.x + 29, FALSE)

\* the conversion of a float64 to an integer: the fraction is dropped
f64Trunc(a) ==
    IF a.sgn = 0 THEN 0
    ELSE IF a.x >= 0 THEN a.sgn * bigToInt(bigShl(a.m, a.x))
    ELSE a.sgn * bigToInt(bigShr(a.m, -a.x))

-----------------------------------------------------------------------------
(* Game.Draw of the depth-sorted programs: src/bubbles.main.go,                *)
(* src/unnamed/part_001 and the lifetime-colour program of src/amazing.main.go  *)

\* particles in the list Game.Draw walks
Sort_MaxLen == 3

\* depths (z2 of the projection) and z values of the particles
Sort_Depths == {1, 2, 3}

\* s with the elements at i and j exchanged
swap(s, i, j) == [s EXCEPT ![i] = s[j], ![j] = s[i]]

\* a less function with the comparison turned round
depthLess_ascending(a, b) == f64Less(a.depth, b.depth)

\* the less function handed to sort.Slice: larger depth first
depthLess(a, b) == f64Less(b.depth, a.depth)

\* the inner loop of insertion sort: the element at j moves down while it is less
\* than the one before it
RECURSIVE insertDown(_, _)
insertDown(s, j) ==
    IF j > 1 /\ depthLess(s[j], s[j - 1]) THEN insertDown(swap(s, j, j - 1), j - 1) ELSE s

\* insertion sort from element i on
RECURSIVE insertionSort(_, _)
insertionSort(s, i) ==
    IF i > Len(s) THEN s ELSE insertionSort(insertDown(s, i), i + 1)

\* sort.Slice(items, less) on a slice of at most 12 elements, which the sort
\* package sorts by insertion
sortSlice(s) == insertionSort(s, 2)

\* the test of the projection: ok
isVisible(it) == it.ok

\* a draw loop that drops nothing
isOpaque_all(it) == TRUE

\* the test of the draw loop of bubbles.main.go: a >= 10
isOpaque(it) == it.a >= 10

\* the test of the collecting loop of the lifetime-colour program
isActive(p) == p.active

\* the items Game.Draw of bubbles.main.go draws, in the order drawn
Bubbles_Draw(ps) == SelectSeq(sortSlice(SelectSeq(ps, isVisible)), isOpaque)

\* the items Game.Draw of part_001 draws, in the order drawn
Part001_Draw(ps) == sortSlice(SelectSeq(ps, isVisible))

\* the inner loop of the sort of the lifetime-colour program, from j on
RECURSIVE exchangeInner(_, _, _)
exchangeInner(s, i, j) ==
    IF j > Len(s) THEN s
    ELSE exchangeInner(IF s[i].z > s[j].z THEN swap(s, i, j) ELSE s, i, j + 1)

\* the sort of the lifetime-colour program, from i on
RECURSIVE exchangeSort(_, _)
exchangeSort(s, i) ==
    IF i > Len(s) THEN s ELSE exchangeSort(exchangeInner(s, i, i + 1), i + 1)

\* the particles Game.Draw of the lifetime-colour program batches, in batch order
Lifetime_Draw(ps) == exchangeSort(SelectSeq(ps, isActive), 1)

\* the particles whose quads Game.Draw of Concert.main.go appends to the batch, in
\* the order appended: the active slots in pool order
Concert_Draw(ps) == SelectSeq(ps, isActive)

\* the particles whose quads Game.Draw of the show appends to its batches, in the
\* order appended: the active slots in pool order
Show_Draw(ps) == SelectSeq(ps, isActive)

\* what the projection and the fade make of one particle of bubbles.main.go or
\* part_001: its depth, whether it is in front of the near plane, and the 8-bit alpha
Sort_Items(i) ==
    { [id |-> i, depth |-> f64OfInt(d), ok |-> v[1], a |-> v[2]] :
         d \in Sort_Depths, v \in { <<TRUE, 200>>, <<TRUE, 9>>, <<FALSE, 0>> } }

\* Update calls of a behaviour of the lifetime-colour program
Sort_MaxTicks == 2

\* Particle.update of the lifetime-colour program
Lifetime_update(p) ==
    IF ~p.active THEN p
    ELSE LET q == [p EXCEPT !.lifetime = p.lifetime + 1] IN
         IF q.lifetime >= q.maxLife
         THEN [q EXCEPT !.active = FALSE]
         ELSE [q EXCEPT !.x = q.x + q.vx,
                        !.y = q.y + q.vy,
                        !.z = q.z + q.vz,
                        !.angle = q.angle + q.angularVelocity,
                        !.vy = q.vy + (2 * FP) \div 100,
                        !.vz = mul(q.vz, 980)]

\* newFireParticle of the lifetime-colour program; d holds the values the calls of
\* math/rand return (d.lifeRoll = rand.Intn(40), d.z = rand.Float64()*2 - 1, ...)
Lifetime_newFireParticle(x, y, d) ==
    [active |-> TRUE,
     x |-> x + d.jx, y |-> y + d.jy, z |-> d.z,
     angle |-> d.angle, angularVelocity |-> d.angularVelocity,
     lifetime |-> 0,
     maxLife |-> d.lifeRoll + 40,
     baseScale |-> d.baseScale,
     vx |-> d.vx, vy |-> d.vy, vz |-> d.vz]

\* Game.spawnExplosion of the lifetime-colour program from iteration i on; the id
\* of a slot stands for the pointer the pool holds, which the assignment keeps
RECURSIVE Lifetime_spawnExplosion(_, _, _, _, _)
Lifetime_spawnExplosion(ps, x, y, ds, i) ==
    IF i >= 600 THEN ps
    ELSE LET k == allocateParticle(ps) IN
         IF k # 0
         THEN Lifetime_spawnExplosion(
                  [ps EXCEPT ![k] = [id |-> ps[k].id] @@ Lifetime_newFireParticle(x, y, Head(ds))],
                  x, y, Tail(ds), i + 1)
         ELSE ps

\* draws of newFireParticle: z in [-1, 1), baseScale in [0.2, 0.3), speed in [2, 6),
\* vx = cos*speed*0.3, vy = sin*speed*0.7, vz in [-0.5, 0.5)
LifetimeDraws ==
    { [jx |-> -2 * FP, jy |-> 0, z |-> -FP, angle |-> 0, angularVelocity |-> FP \div 10,
       lifeRoll |-> 0, baseScale |-> FP \div 5, vx |-> (-170 * FP) \div 100, vy |-> 0,
       vz |-> FP \div 2],
      [jx |-> FP, jy |-> FP, z |-> (99 * FP) \div 100, angle |-> 3 * FP,
       angularVelocity |-> (-9 * FP) \div 100,
       lifeRoll |-> 39, baseScale |-> (29 * FP) \div 100, vx |-> 0,
       vy |-> (-400 * FP) \div 100, vz |-> (-49 * FP) \div 100] }

\* one slot of the pool of the lifetime-colour program at depth z = d: a particle
\* that has expired, one in its second tick, or one an Update away from expiry
Sort_Slots(i) ==
    { [id |-> i, active |-> v[1], x |-> 400 * FP, y |-> 300 * FP, z |-> d * FP,
       angle |-> 0, angularVelocity |-> 0, lifetime |-> v[2], maxLife |-> 40,
       baseScale |-> FP \div 4, vx |-> 0, vy |-> (2 * FP) \div 100, vz |-> v[3]] :
         d \in Sort_Depths,
         v \in { <<FALSE, 40, 0>>, <<TRUE, 1, (2 * FP) \div 10>>,
                 <<TRUE, 39, (-2 * FP) \div 10>> } }

InitSort ==
    /\ prog \in {"bubbles", "part_001", "lifetime"}
    /\ \E n \in 0..Sort_MaxLen :
          particles \in InputChoices([i \in 1..n |-> IF prog = "lifetime" THEN Sort_Slots(i)
                                                     ELSE Sort_Items(i)], 1)
    /\ emitters = << >>
    /\ tick = 0
    /\ clicks = 0
    /\ mid = particles
    /\ bursts = {}
    /\ since = [i \in DOMAIN particles |-> 0]
    /\ uses = [i \in DOMAIN particles |-> 0]
    /\ ret = "nil"
    /\ calls = NoCalls
    /\ drawn = << >>
    /\ camera = NoCamera
    /\ batches = NoBatches

\* Game.Draw of bubbles.main.go
DrawBubbles ==
    /\ prog = "bubbles"
    /\ drawn' = Bubbles_Draw(particles)
    /\ UNCHANGED <<prog, particles, emitters, tick, clicks, mid, bursts, since, uses, ret, calls,
                 camera, batches>>

\* Game.Draw of part_001
DrawPart001 ==
    /\ prog = "part_001"
    /\ drawn' = Part001_Draw(particles)
    /\ UNCHANGED <<prog, particles, emitters, tick, clicks, mid, bursts, since, uses, ret, calls,
                 camera, batches>>

\* a Draw of the lifetime-colour program that sorts the pool itself
DrawLifetime_sortPool ==
    /\ prog = "lifetime"
    /\ drawn' = Lifetime_Draw(particles)
    /\ particles' = exchangeSort(particles, 1)
    /\ UNCHANGED <<prog, emitters, tick, clicks, mid, bursts, since, uses, ret, calls,
                 camera, batches>>

\* Game.Draw of the lifetime-colour program
DrawLifetime ==
    /\ prog = "lifetime"
    /\ drawn' = Lifetime_Draw(particles)
    /\ UNCHANGED <<prog, particles, emitters, tick, clicks, mid, bursts, since, uses, ret, calls,
                 camera, batches>>

\* Game.Update of the lifetime-colour program: click explosion, integration
UpdateLifetime ==
    /\ prog = "lifetime"
    /\ tick < Sort_MaxTicks
    /\ \E click \in {NoClick} \cup (IF clicks < MaxClicks THEN ClickPositions ELSE {}) :
       \E ds \in [1..(IF click = NoClick THEN 0 ELSE Min(600, FreeCount(particles))) -> LifetimeDraws] :
          LET p1 == IF click = NoClick THEN particles
                    ELSE Lifetime_spawnExplosion(particles, click[1] * FP, click[2] * FP, ds, 0)
          IN /\ particles' = [i \in DOMAIN p1 |->
                                 IF p1[i].active THEN Lifetime_update(p1[i]) ELSE p1[i]]
             /\ mid' = p1
             /\ since' = NextSince(particles, p1)
             /\ uses' = NextUses(particles, p1)
             /\ clicks' = IF click = NoClick THEN clicks ELSE clicks + 1
    /\ tick' = tick + 1
    /\ ret' = "nil"
    /\ UNCHANGED <<prog, emitters, bursts, calls, drawn, camera, batches>>

NextSort == DrawBubbles \/ DrawPart001 \/ DrawLifetime \/ UpdateLifetime

SpecSort == InitSort /\ [][NextSort]_vars

-----------------------------------------------------------------------------
(* src/bubbles.main.go and src/unnamed/part_001: projection and fade of Game.Draw *)

\* particles in the list Game.Draw projects
Proj_MaxLen == 2

\* focalLength of both programs
focalLength == 450

\* a / b of two fixed-point values, rounded towards zero
fdiv(a, b) ==
    IF (a >= 0) = (b > 0)
    THEN (IF a >= 0 THEN a ELSE -a) \div (IF b > 0 THEN b ELSE -b)
    ELSE -((IF a >= 0 THEN a ELSE -a) \div (IF b > 0 THEN b ELSE -b))

\* float64 of a value held in units of 1/FP: the float64 its decimal is stored as
f64OfFP(v) == f64Ratio(v, FP, 1)

\* the rotation around X: y1 := p.y*cosp - z1*sinp and the camera-space depth
\* z2 := p.y*sinp + z1*cosp + 600, each product and each sum rounded by itself
rotatedPitch(y, x1, z1, sinp, cosp) ==
    [x1 |-> x1,
     y1 |-> f64Sub(f64Mul(y, cosp), f64Mul(z1, sinp)),
     z2 |-> f64Add(f64Add(f64Mul(y, sinp), f64Mul(z1, cosp)), f64OfInt(600))]

\* the rotation around Y: x1 := p.x*cosy + p.z*siny; z1 := -p.x*siny + p.z*cosy
rotatedYaw(x, y, z, siny, cosy, sinp, cosp) ==
    rotatedPitch(y, f64Add(f64Mul(x, cosy), f64Mul(z, siny)),
                 f64Add(f64Mul(f64Neg(x), siny), f64Mul(z, cosy)), sinp, cosp)

\* the rotation of Project and projected: x1, y1 and z2 as float64 values; cam
\* holds the sines and cosines math.Sin and math.Cos return for yaw and pitch
rotated(p, cam) ==
    rotatedYaw(f64OfFP(p.x), f64OfFP(p.y), f64OfFP(p.z),
               f64OfFP(cam.siny), f64OfFP(cam.cosy), f64OfFP(cam.sinp), f64OfFP(cam.cosp))

\* return 0, 0, 0, z2, false
clipped(r) ==
    [sx |-> f64Zero, sy |-> f64Zero, scale |-> f64Zero, depth |-> r.z2, visible |-> FALSE]

\* sx = x1*f + screenWidth/2; sy = y1*f + screenHeight/2 with f = focalLength / z2;
\* scale is f in bubbles.main.go and p.baseScale * f * 2.0 in part_001
perspective(r, f, scale) ==
    [sx |-> f64Add(f64Mul(r.x1, f), f64OfInt(1024 \div 2)),
     sy |-> f64Add(f64Mul(r.y1, f), f64OfInt(768 \div 2)),
     scale |-> scale, depth |-> r.z2, visible |-> TRUE]

\* a projector that clips only what is nearer than the threshold
Project_clipBelow(p, cam) ==
    LET r == rotated(p, cam) IN
    IF f64Less(r.z2, f64OfInt(10)) THEN clipped(r)
    ELSE perspective(r, f64Div(f64OfInt(focalLength), r.z2),
                     f64Div(f64OfInt(focalLength), r.z2))

\* if z2 <= 10 { return 0, 0, 0, z2, false }; f := focalLength / z2; scale = f
Project_of(r) ==
    IF f64LessEq(r.z2, f64OfInt(10)) THEN clipped(r)
    ELSE perspective(r, f64Div(f64OfInt(focalLength), r.z2),
                     f64Div(f64OfInt(focalLength), r.z2))

\* Particle.Project of bubbles.main.go
Project(p, cam) == Project_of(rotated(p, cam))

\* if z2 <= 10 { return 0, 0, 0, z2, false }; f := focalLength / z2;
\* scale = p.baseScale * f * 2.0
projected_of(p, r) ==
    IF f64LessEq(r.z2, f64OfInt(10)) THEN clipped(r)
    ELSE perspective(r, f64Div(f64OfInt(focalLength), r.z2),
                     f64Mul(f64Mul(f64OfFP(p.baseScale),
                                   f64Div(f64OfInt(focalLength), r.z2)), f64OfInt(2)))

\* Particle.projected of part_001
projected(p, cam) == projected_of(p, rotated(p, cam))

\* a depth fade without its floor
depthFade_noFloor(depth, floor) ==
    f64Sub(f64OfInt(1), f64Div(f64Sub(depth, f64OfInt(200)), f64OfInt(1200)))

\* if depthFade < floor { depthFade = floor }
floored(fade, floor) == IF f64Less(fade, floor) THEN floor ELSE fade

\* depthFade of Game.Draw: the float64 1.0 - (depth-200)/1200 of the float64 depth,
\* not below the floor; floor is the constant of the program in units of 1/FP
depthFade(depth, floor) ==
    floored(f64Sub(f64OfInt(1), f64Div(f64Sub(depth, f64OfInt(200)), f64OfInt(1200))),
            f64OfFP(floor))

\* lifeRatio: float64(p.life) / float64(p.maxLife)
lifeRatio(p) == f64Div(f64OfInt(p.life), f64OfInt(p.maxLife))

\* alpha of Game.Draw: the float64 lifeRatio * depthFade
fadeAlpha(p, depth, floor) == f64Mul(lifeRatio(p), depthFade(depth, floor))

\* uint8(255 * alpha): the float64 product loses its fraction, and a value of 256
\* or more keeps its low 8 bits (the conversion goes through a 64-bit integer)
alpha8(alpha) == f64Trunc(f64Mul(f64OfInt(255), alpha)) % 256

\* the draw item of a visible particle: drawItem{sx, sy, size, depth, alpha, p.color}
\* with size := p.baseSize * scale * 3.0
Bubbles_visible(p, i, r, alpha) ==
    [id |-> i, ok |-> TRUE, x |-> r.sx, y |-> r.sy,
     size |-> f64Mul(f64Mul(f64OfFP(p.baseSize), r.scale), f64OfInt(3)),
     depth |-> r.depth, alpha |-> alpha, a |-> alpha8(alpha)]

Bubbles_itemOf(p, i, r) ==
    IF ~r.visible THEN [id |-> i, ok |-> FALSE, depth |-> r.depth, a |-> 0]
    ELSE Bubbles_visible(p, i, r, fadeAlpha(p, r.depth, 200))

\* the draw item Game.Draw of bubbles.main.go makes of particle i of the list
Bubbles_item(p, i, cam) == Bubbles_itemOf(p, i, Project(p, cam))

\* a in [0, 1]: if a < 0 { a = 0 } else if a > 1 { a = 1 }
clamped(a) ==
    IF a.sgn < 0 THEN f64Zero ELSE IF f64Less(f64OfInt(1), a) THEN f64OfInt(1) ELSE a

\* the draw item of a visible particle of part_001; a is the alpha handed to
\* ColorM.Scale, alphaMult clamped into [0, 1]
Part001_visible(p, i, r, alpha) ==
    [id |-> i, ok |-> TRUE, sx |-> r.sx, sy |-> r.sy, scale |-> r.scale,
     depth |-> r.depth, alphaMult |-> alpha, a |-> clamped(alpha)]

Part001_itemOf(p, i, r) ==
    IF ~r.visible THEN [id |-> i, ok |-> FALSE, depth |-> r.depth, a |-> 0]
    ELSE Part001_visible(p, i, r, fadeAlpha(p, r.depth, 250))

\* the draw item Game.Draw of part_001 makes of particle i of the list
Part001_item(p, i, cam) == Part001_itemOf(p, i, projected(p, cam))

\* the whole Game.Draw of bubbles.main.go: project, fade, sort, draw
Bubbles_Frame(ps, cam) == Bubbles_Draw([i \in DOMAIN ps |-> Bubbles_item(ps[i], i, cam)])

\* the whole Game.Draw of part_001
Part001_Frame(ps, cam) == Part001_Draw([i \in DOMAIN ps |-> Part001_item(ps[i], i, cam)])

\* cameras: straight ahead, yawed by a quarter turn, pitched by 0.15 rad
Proj_Cameras ==
    { [siny |-> 0, cosy |-> FP, sinp |-> 0, cosp |-> FP],
      [siny |-> FP, cosy |-> 0, sinp |-> 0, cosp |-> FP],
      [siny |-> 0, cosy |-> FP, sinp |-> 149, cosp |-> 989] }

\* particles handed to the projector: on and around the near plane (z2 = 10 for
\* z = -590 seen straight ahead), in the cloud, and far behind it; two whose
\* 255 * alpha would be a whole number (10 and 51) in exact arithmetic, one whose
\* float64 255 * alpha is 10, and one that the pitched camera sees just inside the
\* near plane
Proj_Particles ==
    { [x |-> 0, y |-> 0, z |-> z * FP, vx |-> 0, vy |-> 0, vz |-> 0,
       life |-> l, maxLife |-> 100, baseSize |-> 2 * FP, baseScale |-> (12 * FP) \div 100,
       angle |-> 0, spin |-> 0] :
         z \in {-600, -591, -590, -589, 0, 1000}, l \in {1, 50, 100} }
    \cup
    { [x |-> v[1], y |-> v[2], z |-> v[3], vx |-> 0, vy |-> 0, vz |-> 0,
       life |-> v[4], maxLife |-> v[5], baseSize |-> 2 * FP, baseScale |-> (12 * FP) \div 100,
       angle |-> 0, spin |-> 0] :
         v \in { << 0, 0, 100 * FP, 8, 119 >>, << 0, 0, 300 * FP, 48, 100 >>,
                 << 0, 0, 200 * FP, 8, 102 >>, << 100 * FP, 50 * FP, 0, 50, 100 >>,
                 << 526086, -248582, -559112, 50, 100 >> } }

InitProject ==
    /\ prog \in {"Project", "projected"}
    /\ \E n \in 1..Proj_MaxLen : particles \in [1..n -> Proj_Particles]
    /\ camera \in Proj_Cameras
    /\ emitters = << >>
    /\ tick = 0
    /\ clicks = 0
    /\ mid = << >>
    /\ bursts = {}
    /\ since = << >>
    /\ uses = << >>
    /\ ret = "nil"
    /\ calls = NoCalls
    /\ drawn = << >>
    /\ batches = NoBatches

\* Game.Draw of bubbles.main.go
DrawProject ==
    /\ prog = "Project"
    /\ drawn' = Bubbles_Frame(particles, camera)
    /\ UNCHANGED <<prog, particles, emitters, tick, clicks, mid, bursts, since, uses, ret, calls,
                   camera, batches>>

\* Game.Draw of part_001
DrawProjected ==
    /\ prog = "projected"
    /\ drawn' = Part001_Frame(particles, camera)
    /\ UNCHANGED <<prog, particles, emitters, tick, clicks, mid, bursts, since, uses, ret, calls,
                   camera, batches>>

NextProject == DrawProject \/ DrawProjected

SpecProject == InitProject /\ [][NextProject]_vars

-----------------------------------------------------------------------------
(* Game.Draw of the batched programs: vertex and index buffers, draw calls *)

\* Update calls before the frames that are drawn
Frames_MaxTicks == 4

CompositeModeSourceOver == 0
CompositeModeLighter == 1

\* a vertex or index buffer cut to length 0, with no draw call made yet
EmptyBatch == [vertices |-> << >>, indices |-> << >>, calls |-> << >>]

\* a reset that keeps what the buffers hold
resetBuffers_keep(bs, names) ==
    [n \in names |-> IF n \in DOMAIN bs THEN [bs[n] EXCEPT !.calls = << >>] ELSE EmptyBatch]

\* g.vertices = g.vertices[:0]; g.indices = g.indices[:0] for every buffer of the game
resetBuffers(bs, names) == [n \in names |-> EmptyBatch]

\* the four corners of the quad of pool slot i, each carrying ColorA = alpha
\* (position, texture coordinates and colour are left out)
quadVertices(i, alpha) == [c \in 1..4 |-> [slot |-> i, corner |-> c, alpha |-> alpha]]

\* a quad whose second triangle repeats the first
quadIndices_oneTriangle(vIndex) ==
    << vIndex, (vIndex + 1) % 65536, (vIndex + 2) % 65536,
       vIndex, (vIndex + 1) % 65536, (vIndex + 2) % 65536 >>

\* vIndex, vIndex+1, vIndex+2, vIndex+1, vIndex+3, vIndex+2 in uint16
quadIndices(vIndex) ==
    << vIndex, (vIndex + 1) % 65536, (vIndex + 2) % 65536,
       (vIndex + 1) % 65536, (vIndex + 3) % 65536, (vIndex + 2) % 65536 >>

\* the appends of one particle: four vertices, six indices; count is the vertex
\* counter vIndex is converted from
appendQuad(b, count, i, alpha) ==
    [b EXCEPT !.vertices = @ \o quadVertices(i, alpha),
              !.indices = @ \o quadIndices(count % 65536)]

\* a draw call made whether or not the buffer holds anything
submit_always(b, cond, mode) == [b EXCEPT !.calls = @ \o << mode >>]

\* screen.DrawTriangles(vertices, indices, image, op) under the condition of the code
submit(b, cond, mode) == IF cond THEN [b EXCEPT !.calls = @ \o << mode >>] ELSE b

\* the largest r in lo..hi with r * r <= n
RECURSIVE sqrtBetween(_, _, _)
sqrtBetween(n, lo, hi) ==
    IF lo >= hi THEN lo
    ELSE LET m == (lo + hi + 1) \div 2 IN
         IF m * m <= n THEN sqrtBetween(n, m, hi) ELSE sqrtBetween(n, lo, m - 1)

\* math.Pow(rate, 1.5) of a rate in [0, 1]
pow15(rate) == mul(rate, sqrtBetween(rate * FP, 0, FP))

\* rate := float64(p.lifetime) / float64(p.maxLife), in units of 1/FP
lifeRate(p) == fdiv(p.lifetime * FP, p.maxLife)

\* rate := float64(p.lifetime) / float64(p.maxLife)
SmokeFire_rate(p) == f64Div(f64OfInt(p.lifetime), f64OfInt(p.maxLife))

\* the float32 alpha of a particle of the given type at the given rate: for fire
\* float32(1.0 - math.Pow(rate, 2)), where math.Pow(rate, 2) is the one rounded
\* product rate * rate; for smoke float32(rate / 0.2) below 0.2,
\* float32((1 - rate) / 0.2) above 0.8 and 1.0 between
SmokeFire_alphaAt(pType, rate) ==
    IF pType = TypeFire THEN f32Of(f64Sub(f64OfInt(1), f64Mul(rate, rate)))
    ELSE IF f64Less(rate, f64OfRat(2, 10)) THEN f32Of(f64Div(rate, f64OfRat(2, 10)))
    ELSE IF f64Less(f64OfRat(8, 10), rate)
    THEN f32Of(f64Div(f64Sub(f64OfInt(1), rate), f64OfRat(2, 10)))
    ELSE f64OfInt(1)

\* alpha of Game.Draw of part_000: 1 - rate^2 for fire, the fade-in fade-out
\* envelope for smoke; a float32 computed from the float64 rate
SmokeFire_alpha(p) == SmokeFire_alphaAt(p.pType, SmokeFire_rate(p))

\* the particle loop of Game.Draw of part_000 from slot i on; st holds the two
\* buffers and the counters fireVertexCount, smokeVertexCount
RECURSIVE SmokeFire_appendLoop(_, _, _)
SmokeFire_appendLoop(ps, i, st) ==
    IF i > Len(ps) THEN st
    ELSE IF ~ps[i].active THEN SmokeFire_appendLoop(ps, i + 1, st)
    ELSE IF ps[i].pType = TypeFire
    THEN SmokeFire_appendLoop(ps, i + 1,
            [st EXCEPT !.bs.fire = appendQuad(@, st.fireVertexCount, i, SmokeFire_alpha(ps[i])),
                       !.fireVertexCount = @ + 4])
    ELSE SmokeFire_appendLoop(ps, i + 1,
            [st EXCEPT !.bs.smoke = appendQuad(@, st.smokeVertexCount, i, SmokeFire_alpha(ps[i])),
                       !.smokeVertexCount = @ + 4])

\* Game.Draw of part_000: reset, fill, then fire with additive blending and smoke
\* with the normal alpha composite
SmokeFire_Frame(bs, ps) ==
    LET st == SmokeFire_appendLoop(ps, 1, [bs |-> resetBuffers(bs, {"fire", "smoke"}),
                                           fireVertexCount |-> 0, smokeVertexCount |-> 0])
    IN [fire |-> submit(st.bs.fire,
                        Len(st.bs.fire.vertices) > 0 /\ Len(st.bs.fire.indices) > 0,
                        CompositeModeLighter),
        smoke |-> submit(st.bs.smoke,
                         Len(st.bs.smoke.vertices) > 0 /\ Len(st.bs.smoke.indices) > 0,
                         CompositeModeSourceOver)]

\* alpha of Game.Draw of Concert.main.go
Concert_alpha(p) == FP - pow15(lifeRate(p))

\* the particle loop of Game.Draw of Concert.main.go from slot i on
RECURSIVE Concert_appendLoop(_, _, _)
Concert_appendLoop(ps, i, st) ==
    IF i > Len(ps) THEN st
    ELSE IF ~ps[i].active THEN Concert_appendLoop(ps, i + 1, st)
    ELSE Concert_appendLoop(ps, i + 1,
            [st EXCEPT !.bs.quads = appendQuad(@, st.fireVertexCount, i, Concert_alpha(ps[i])),
                       !.fireVertexCount = @ + 4])

\* Game.Draw of Concert.main.go
Concert_Frame(bs, ps) ==
    LET st == Concert_appendLoop(ps, 1, [bs |-> resetBuffers(bs, {"quads"}),
                                         fireVertexCount |-> 0])
    IN [quads |-> submit(st.bs.quads,
                         Len(st.bs.quads.vertices) > 0 /\ Len(st.bs.quads.indices) > 0,
                         CompositeModeLighter)]

\* the four corners of a quad of the show or of smoke.main.go (ColorA left out too)
plainVertices(i) == [c \in 1..4 |-> [slot |-> i, corner |-> c]]

\* the particle loop of Game.Draw of the show from slot i on
RECURSIVE Show_appendLoop(_, _, _)
Show_appendLoop(ps, i, st) ==
    IF i > Len(ps) THEN st
    ELSE IF ~ps[i].active THEN Show_appendLoop(ps, i + 1, st)
    ELSE Show_appendLoop(ps, i + 1,
            [st EXCEPT !.bs.quads.vertices = @ \o plainVertices(i),
                       !.bs.quads.indices = @ \o quadIndices(st.fireVertexCount % 65536),
                       !.fireVertexCount = @ + 4])

\* Game.Draw of the show
Show_Frame(bs, ps) ==
    LET st == Show_appendLoop(ps, 1, [bs |-> resetBuffers(bs, {"quads"}),
                                      fireVertexCount |-> 0])
    IN [quads |-> submit(st.bs.quads,
                         Len(st.bs.quads.vertices) > 0 /\ Len(st.bs.quads.indices) > 0,
                         CompositeModeLighter)]

\* the particle loop of Game.Draw of smoke.main.go from slot i on; vIndex is
\* taken from len(g.vertices)
RECURSIVE Smoke_appendLoop(_, _, _)
Smoke_appendLoop(ps, i, st) ==
    IF i > Len(ps) THEN st
    ELSE IF ~ps[i].active THEN Smoke_appendLoop(ps, i + 1, st)
    ELSE Smoke_appendLoop(ps, i + 1,
            [st EXCEPT !.bs.quads.vertices = @ \o plainVertices(i),
                       !.bs.quads.indices = @ \o quadIndices(Len(st.bs.quads.vertices) % 65536),
                       !.activeCount = @ + 1])

\* Game.Draw of smoke.main.go
Smoke_Frame(bs, ps) ==
    LET st == Smoke_appendLoop(ps, 1, [bs |-> resetBuffers(bs, {"quads"}), activeCount |-> 0])
    IN [quads |-> submit(st.bs.quads, st.activeCount > 0, CompositeModeLighter)]

\* Game.Draw of the program that runs
Frame(bs, ps) ==
    IF prog = "smokefire" THEN SmokeFire_Frame(bs, ps)
    ELSE IF prog = "concert" THEN Concert_Frame(bs, ps)
    ELSE IF prog = "show" THEN Show_Frame(bs, ps)
    ELSE Smoke_Frame(bs, ps)

\* Update calls so far (Concert.main.go keeps no tick: the age of its oldest particle)
Elapsed ==
    IF prog = "smokefire" THEN emitters[1].counter
    ELSE IF prog = "concert"
    THEN (IF \E i \in DOMAIN particles : particles[i].active
          THEN CHOOSE n \in 0..Frames_MaxTicks :
                  \/ n = Frames_MaxTicks
                  \/ /\ \E i \in DOMAIN particles : particles[i].active /\ particles[i].lifetime = n
                     /\ \A i \in DOMAIN particles : particles[i].active => particles[i].lifetime <= n
          ELSE 0)
    ELSE tick

\* Game.Update of each program, for the first Frames_MaxTicks calls
FrameUpdateSmokeFire == Elapsed < Frames_MaxTicks /\ UpdateSmokeFire
FrameUpdateConcert == Elapsed < Frames_MaxTicks /\ UpdateConcert
FrameUpdateShow == Elapsed < Frames_MaxTicks /\ UpdateShow
FrameUpdateSmoke == Elapsed < Frames_MaxTicks /\ UpdateSmoke

\* Game.Draw of part_000; drawn keeps the buffers as Draw found them
DrawSmokeFire ==
    /\ prog = "smokefire"
    /\ batches' = SmokeFire_Frame(batches, particles)
    /\ drawn' = batches
    /\ UNCHANGED <<prog, particles, emitters, tick, clicks, mid, bursts, since, uses, ret,
                   calls, camera>>

\* Game.Draw of Concert.main.go; drawn keeps the buffers as Draw found them
DrawConcert ==
    /\ prog = "concert"
    /\ batches' = Concert_Frame(batches, particles)
    /\ drawn' = batches
    /\ UNCHANGED <<prog, particles, emitters, tick, clicks, mid, bursts, since, uses, ret,
                   calls, camera>>

\* Game.Draw of the show; drawn keeps the buffers as Draw found them
DrawShow ==
    /\ prog = "show"
    /\ batches' = Show_Frame(batches, particles)
    /\ drawn' = batches
    /\ UNCHANGED <<prog, particles, emitters, tick, clicks, mid, bursts, since, uses, ret,
                   calls, camera>>

\* Game.Draw of smoke.main.go; drawn keeps the buffers as Draw found them
DrawSmoke ==
    /\ prog = "smoke"
    /\ batches' = Smoke_Frame(batches, particles)
    /\ drawn' = batches
    /\ UNCHANGED <<prog, particles, emitters, tick, clicks, mid, bursts, since, uses, ret,
                   calls, camera>>

InitFrames == InitPools \/ InitProject

NextFrames ==
    \/ FrameUpdateSmokeFire \/ FrameUpdateConcert \/ FrameUpdateShow \/ FrameUpdateSmoke
    \/ DrawSmokeFire \/ DrawConcert \/ DrawShow \/ DrawSmoke
    \/ DrawProject \/ DrawProjected

SpecFrames == InitFrames /\ [][NextFrames]_vars

-----------------------------------------------------------------------------
(* src/bubbles.main.go and src/unnamed/part_001: Game.Update of the particle list *)

\* capacity of the list (maxParticles is 1200 in both programs)
Cloud_MaxParticles == 7
\* Update calls per behaviour
Cloud_MaxTicks == 104

spawnPerTick == 8
regenerate == 40

\* NewParticle of bubbles.main.go; d holds the position and velocity computed
\* from the drawn sphere point and speed, d.lifeRoll = rand.Intn(120), d.baseSize
Bubbles_NewParticle(d) ==
    [x |-> d.x, y |-> d.y, z |-> d.z, vx |-> d.vx, vy |-> d.vy, vz |-> d.vz,
     life |-> 100 + d.lifeRoll, maxLife |-> 100 + d.lifeRoll,
     baseSize |-> d.baseSize, baseScale |-> 0, angle |-> 0, spin |-> 0]

\* NewParticle of part_001; d.lifeRoll = rand.Intn(160)
Part001_NewParticle(d) ==
    [x |-> d.x, y |-> d.y, z |-> d.z, vx |-> d.vx, vy |-> d.vy, vz |-> d.vz,
     life |-> 80 + d.lifeRoll, maxLife |-> 80 + d.lifeRoll,
     baseSize |-> 0, baseScale |-> d.baseScale, angle |-> d.angle, spin |-> d.spin]

\* Particle.Update of bubbles.main.go; the particle is kept while life > 0
Bubbles_Update(p) ==
    [p EXCEPT !.x = p.x + p.vx, !.y = p.y + p.vy, !.z = p.z + p.vz,
              !.vx = mul(p.vx, 990), !.vy = mul(p.vy, 990), !.vz = mul(p.vz, 990),
              !.life = p.life - 1]

\* Particle.update of part_001
Part001_update(p) ==
    [p EXCEPT !.x = p.x + p.vx, !.y = p.y + p.vy, !.z = p.z + p.vz,
              !.vx = mul(p.vx, 995), !.vy = mul(p.vy, 995), !.vz = mul(p.vz, 995),
              !.life = p.life - 1,
              !.angle = p.angle + p.spin]

\* a spawn whose loop runs while len(g.particles) <= maxParticles
spawnCount_oneMore(len, n) ==
    IF len > Cloud_MaxParticles THEN 0 ELSE Min(n, Cloud_MaxParticles + 1 - len)

\* how many particles Game.spawn(n) appends to a list of length len:
\* for i := 0; i < n && len(g.particles) < maxParticles; i++
spawnCount(len, n) == IF len >= Cloud_MaxParticles THEN 0 ELSE Min(n, Cloud_MaxParticles - len)

\* Game.spawn of bubbles.main.go, one draw per appended particle
Bubbles_spawn(ps, ds) == ps \o [i \in DOMAIN ds |-> Bubbles_NewParticle(ds[i])]

\* Game.spawn of part_001
Part001_spawn(ps, ds) == ps \o [i \in DOMAIN ds |-> Part001_NewParticle(ds[i])]

alive(p) == p.life > 0

\* a compaction that keeps a particle while life >= 0
Bubbles_compact_keepDead(ps) ==
    LET updated == [i \in DOMAIN ps |-> Bubbles_Update(ps[i])]
        kept == { i \in DOMAIN ps : updated[i].life >= 0 }
    IN [k \in 1..Cardinality(kept) |->
           updated[CHOOSE i \in kept : Cardinality({ j \in kept : j <= i }) = k]]

\* the update-and-compact loop of Game.Update of bubbles.main.go, from the r-th
\* element of the slice s on, with write elements kept so far:
\* if p.Update() { g.particles[write] = p; write++ }, then g.particles[:write]
RECURSIVE Bubbles_compactLoop(_, _, _)
Bubbles_compactLoop(s, r, write) ==
    IF r > Len(s) THEN SubSeq(s, 1, write)
    ELSE LET p == Bubbles_Update(s[r]) IN
         IF alive(p)
         THEN Bubbles_compactLoop([s EXCEPT ![r] = p, ![write + 1] = p], r + 1, write + 1)
         ELSE Bubbles_compactLoop([s EXCEPT ![r] = p], r + 1, write)

Bubbles_compact(ps) == Bubbles_compactLoop(ps, 1, 0)

\* the update-and-compact loop of Game.Update of part_001
RECURSIVE Part001_compactLoop(_, _, _)
Part001_compactLoop(s, r, write) ==
    IF r > Len(s) THEN SubSeq(s, 1, write)
    ELSE LET p == Part001_update(s[r]) IN
         IF alive(p)
         THEN Part001_compactLoop([s EXCEPT ![r] = p, ![write + 1] = p], r + 1, write + 1)
         ELSE Part001_compactLoop([s EXCEPT ![r] = p], r + 1, write)

Part001_compact(ps) == Part001_compactLoop(ps, 1, 0)

\* math.Sin of a small angle, by its series up to the cubic term
sine(a) == a - (a * a * a) \div (6 * FP * FP)

\* the camera after the Update that makes the tick t: yaw += 0.004 and
\* pitch = math.Sin(t * 0.002) * 0.15
movedCamera(cam, t) == [yaw |-> cam.yaw + 4, pitch |-> mul(sine(2 * t), 150)]

\* the values the calls of math/rand in NewParticle return
Cloud_Draws ==
    { [x |-> 100 * FP, y |-> 0, z |-> -50 * FP, vx |-> 226, vy |-> 0, vz |-> -113,
       lifeRoll |-> r, baseSize |-> 2 * FP, baseScale |-> (12 * FP) \div 100,
       angle |-> 0, spin |-> (5 * FP) \div 100] : r \in {0, 1} }

InitCloud ==
    /\ prog \in {"bubbles", "part_001"}
    /\ particles = << >>
    /\ camera = [yaw |-> 0, pitch |-> 0]
    /\ emitters = << >>
    /\ tick = 0
    /\ clicks = 0
    /\ mid = << >>
    /\ bursts = {}
    /\ since = << >>
    /\ uses = << >>
    /\ ret = "nil"
    /\ calls = NoCalls
    /\ drawn = << >>
    /\ batches = NoBatches

\* Game.Update of bubbles.main.go; mid is the list after the spawn
UpdateBubbles ==
    /\ prog = "bubbles"
    /\ tick < Cloud_MaxTicks
    /\ tick' = tick + 1
    /\ \E ds \in [1..(IF (tick + 1) % 2 = 0 THEN spawnCount(Len(particles), spawnPerTick) ELSE 0)
                    -> Cloud_Draws] :
          /\ mid' = Bubbles_spawn(particles, ds)
          /\ particles' = Bubbles_compact(Bubbles_spawn(particles, ds))
    /\ camera' = movedCamera(camera, tick + 1)
    /\ UNCHANGED <<prog, emitters, clicks, bursts, since, uses, ret, calls, drawn, batches>>

\* Game.Update of part_001, with the regeneration spawn after the compaction
UpdatePart001 ==
    /\ prog = "part_001"
    /\ tick < Cloud_MaxTicks
    /\ tick' = tick + 1
    /\ \E ds \in [1..(IF (tick + 1) % 2 = 0 THEN spawnCount(Len(particles), spawnPerTick) ELSE 0)
                    -> Cloud_Draws] :
       \E p2 \in { Part001_compact(Part001_spawn(particles, ds)) } :
       \E es \in [1..(IF Len(p2) < Cloud_MaxParticles \div 3
                      THEN spawnCount(Len(p2), regenerate) ELSE 0) -> Cloud_Draws] :
          /\ mid' = Part001_spawn(particles, ds)
          /\ particles' = Part001_spawn(p2, es)
    /\ camera' = movedCamera(camera, tick + 1)
    /\ UNCHANGED <<prog, emitters, clicks, bursts, since, uses, ret, calls, drawn, batches>>

NextCloud == UpdateBubbles \/ UpdatePart001

SpecCloud == InitCloud /\ [][NextCloud]_vars

-----------------------------------------------------------------------------
(* src/NewParticles.main.go: NewParticle, Particle.Update and Game.Update *)

\* Update calls per behaviour
NP_MaxTicks == 330
\* the first spawns, whose random draws are varied; later spawns draw the longest life
NP_VariedSpawns == 2

NP_maxParticles == 800
NP_spawnCount == 5

\* NewParticle; d holds the velocity computed from the drawn direction and speed,
\* the drawn angle and scale, and the two separate calls of rand.Intn(120):
\* d.lifeRoll for life and d.maxLifeRoll for maxLife
NP_NewParticle(d) ==
    [x |-> (800 \div 2) * FP, y |-> (600 \div 2) * FP, vx |-> d.vx, vy |-> d.vy,
     angle |-> d.angle, scale |-> d.scale, alpha |-> (6 * FP) \div 10,
     life |-> 60 + d.lifeRoll, maxLife |-> 60 + d.maxLifeRoll]

\* Particle.Update; the particle is kept while life > 0
NP_Update(p) ==
    [p EXCEPT !.x = p.x + p.vx, !.y = p.y + p.vy, !.vy = p.vy + FP \div 100,
              !.angle = p.angle + FP \div 100, !.life = p.life - 1]

\* ratio := float32(p.life) / float32(p.maxLife) of Particle.Draw
NP_ratio(p) == fdiv(p.life * FP, p.maxLife)

\* the update-and-compact loop of Game.Update, by its result: the updated particles
\* that Update() reports alive, in list order
NP_compact(ps) == SelectSeq([i \in DOMAIN ps |-> NP_Update(ps[i])], alive)

\* a spawn whose loop runs four times as long, making each particle four times
NP_spawn_fourfold(ps, t, ds) ==
    IF Len(ps) < NP_maxParticles /\ t % 2 = 0
    THEN ps \o [i \in 1..(4 * NP_spawnCount) |-> NP_NewParticle(ds[(i + 3) \div 4])]
    ELSE ps

\* the spawn of Game.Update at tick t: five particles when the list is shorter
\* than maxParticles and the tick is even
NP_spawn(ps, t, ds) ==
    IF Len(ps) < NP_maxParticles /\ t % 2 = 0
    THEN ps \o [i \in 1..NP_spawnCount |-> NP_NewParticle(ds[i])]
    ELSE ps

\* values the calls of math/rand in NewParticle return: the two rolls at the ends
\* of their range, in the three combinations that differ in what they give
NP_Draws ==
    { [vx |-> FP, vy |-> 0, angle |-> 0, scale |-> (3 * FP) \div 10,
       lifeRoll |-> l, maxLifeRoll |-> m] :
         l \in {0, 119}, m \in {0, 119} }

\* the draws of the five particles of the spawn at tick t
NP_SpawnDraws(t) ==
    IF t < 2 * NP_VariedSpawns
    THEN { [i \in 1..NP_spawnCount |-> d] : d \in NP_Draws }
            \cup { [i \in 1..NP_spawnCount |->
                       [vx |-> FP, vy |-> 0, angle |-> 0, scale |-> (3 * FP) \div 10,
                        lifeRoll |-> IF i % 2 = 0 THEN 119 ELSE 0,
                        maxLifeRoll |-> IF i % 2 = 0 THEN 0 ELSE 119]] }
    ELSE { [i \in 1..NP_spawnCount |->
               [vx |-> FP, vy |-> 0, angle |-> 0, scale |-> (3 * FP) \div 10,
                lifeRoll |-> 119, maxLifeRoll |-> 119]] }

InitNewParticles ==
    /\ prog = "newparticles"
    /\ particles = << >>
    /\ camera = NoCamera
    /\ emitters = << >>
    /\ tick = 0
    /\ clicks = 0
    /\ mid = << >>
    /\ bursts = {}
    /\ since = << >>
    /\ uses = << >>
    /\ ret = "nil"
    /\ calls = NoCalls
    /\ drawn = << >>
    /\ batches = NoBatches

\* Game.Update; mid is the list after the spawn
UpdateNewParticles ==
    /\ prog = "newparticles"
    /\ tick < NP_MaxTicks
    /\ \E ds \in NP_SpawnDraws(tick) :
          /\ mid' = NP_spawn(particles, tick, ds)
          /\ particles' = NP_compact(NP_spawn(particles, tick, ds))
    /\ tick' = tick + 1
    /\ UNCHANGED <<prog, emitters, clicks, bursts, since, uses, ret, calls, drawn, camera,
                   batches>>

\* the three programs that keep their particles in a compacted list
InitLists == InitCloud \/ InitNewParticles

NextLists == UpdateBubbles \/ UpdatePart001 \/ UpdateNewParticles

SpecLists == InitLists /\ [][NextLists]_vars

-----------------------------------------------------------------------------
(* src/unnamed/part_001, second program: Vector, the balls and Game.Update;    *)
(* every field of a Vector, a Ball and a Wall is a float64 value                *)

\* Update calls of a behaviour of the balls
Balls_MaxTicks == 2

\* the unit in which the inputs of this program are written: 1/(FP*FP), a millionth
FF == FP * FP

\* float64 of a decimal written in units of 1/FF
f64OfFF(v) == f64Ratio(v, FP, FP)

screenW == 800
screenH == 800

\* dt = 0.016
dt == f64OfRat(16, 1000)

\* coefficient of restitution
e == f64OfRat(8, 10)

\* gravity = Vector{0, 9.8}
gravity == [X |-> f64Zero, Y |-> f64OfRat(98, 10)]

BallRadius == f64OfInt(10)

\* Vector{}
ZeroVector == [X |-> f64Zero, Y |-> f64Zero]

\* math.Max
f64Max(a, b) == IF f64Less(a, b) THEN b ELSE a

\* Vector.LengthSq: v.X*v.X + v.Y*v.Y
LengthSq(v) == f64Add(f64Mul(v.X, v.X), f64Mul(v.Y, v.Y))

\* Vector.Length: math.Sqrt(v.LengthSq())
Length(v) == f64Sqrt(LengthSq(v))

\* return Vector{v.X / l, v.Y / l}
scaledDown(v, l) == [X |-> f64Div(v.X, l), Y |-> f64Div(v.Y, l)]

Normalized_by(v, l) == IF l.sgn = 0 THEN ZeroVector ELSE scaledDown(v, l)

Normalized_defaultAxisBy(v, l) ==
    IF l.sgn = 0 THEN [X |-> f64OfInt(1), Y |-> f64Zero] ELSE scaledDown(v, l)

\* a Normalized that answers the X axis for a vector without direction
Normalized_defaultAxis(v) == Normalized_defaultAxisBy(v, Length(v))

\* Vector.Normalized
Normalized(v) == Normalized_by(v, Length(v))

\* b.Vel.Add(Vector{a.X * dt, a.Y * dt}) with a := Vector{f.X / b.Mass, f.Y / b.Mass}
applyForce(b, f) ==
    [b EXCEPT !.Vel.X = f64Add(@, f64Mul(f64Div(f.X, b.Mass), dt)),
              !.Vel.Y = f64Add(@, f64Mul(f64Div(f.Y, b.Mass), dt))]

\* updatePosition
updatePosition(b) ==
    [b EXCEPT !.Pos.X = f64Add(@, f64Mul(b.Vel.X, dt)),
              !.Pos.Y = f64Add(@, f64Mul(b.Vel.Y, dt))]

\* the vector from the centre of b1 to the centre of b2
between(b1, b2) == [X |-> f64Sub(b2.Pos.X, b1.Pos.X), Y |-> f64Sub(b2.Pos.Y, b1.Pos.Y)]

\* circlesCollided: math.Sqrt(dx*dx + dy*dy) < b1.Radius + b2.Radius
circlesCollided(b1, b2) ==
    f64Less(Length(between(b1, b2)), f64Add(b1.Radius, b2.Radius))

\* the four updates of the velocities and the four of the positions
bounced(b1, b2, impulseVec, correction) ==
    << [b1 EXCEPT !.Vel.X = f64Sub(@, f64Div(impulseVec.X, b1.Mass)),
                  !.Vel.Y = f64Sub(@, f64Div(impulseVec.Y, b1.Mass)),
                  !.Pos.X = f64Sub(@, correction.X),
                  !.Pos.Y = f64Sub(@, correction.Y)],
       [b2 EXCEPT !.Vel.X = f64Add(@, f64Div(impulseVec.X, b2.Mass)),
                  !.Vel.Y = f64Add(@, f64Div(impulseVec.Y, b2.Mass)),
                  !.Pos.X = f64Add(@, correction.X),
                  !.Pos.Y = f64Add(@, correction.Y)] >>

\* impulseVec := Vector{n.X * impulse, n.Y * impulse};
\* correction := Vector{n.X * penetration / 2, n.Y * penetration / 2}
bouncedBy(b1, b2, n, impulse, penetration) ==
    bounced(b1, b2, [X |-> f64Mul(n.X, impulse), Y |-> f64Mul(n.Y, impulse)],
            [X |-> f64Div(f64Mul(n.X, penetration), f64OfInt(2)),
             Y |-> f64Div(f64Mul(n.Y, penetration), f64OfInt(2))])

\* if velAlongNormal > 0 { return }; impulse := -(1 + e) * velAlongNormal;
\* impulse /= (1/b1.Mass + 1/b2.Mass); penetration := (b1.Radius + b2.Radius) - dist
bounceAlong(b1, b2, n, dist, velAlongNormal) ==
    IF velAlongNormal.sgn > 0 THEN << b1, b2 >>
    ELSE bouncedBy(b1, b2, n,
                   f64Div(f64Mul(f64Neg(f64Add(f64OfInt(1), e)), velAlongNormal),
                          f64Add(f64Div(f64OfInt(1), b1.Mass), f64Div(f64OfInt(1), b2.Mass))),
                   f64Sub(f64Add(b1.Radius, b2.Radius), dist))

\* velAlongNormal := rv.X*n.X + rv.Y*n.Y for the relative velocity rv
bounceOn(b1, b2, n, dist, rv) ==
    bounceAlong(b1, b2, n, dist, f64Add(f64Mul(rv.X, n.X), f64Mul(rv.Y, n.Y)))

\* if dist == 0 { return }; n := normal.Normalized()
bounceFrom(b1, b2, normal, dist) ==
    IF dist.sgn = 0 THEN << b1, b2 >>
    ELSE bounceOn(b1, b2, Normalized(normal), dist,
                  [X |-> f64Sub(b2.Vel.X, b1.Vel.X), Y |-> f64Sub(b2.Vel.Y, b1.Vel.Y)])

\* bounceBalls; the result is the pair of balls after the call
bounceBalls(b1, b2) == bounceFrom(b1, b2, between(b1, b2), Length(between(b1, b2)))

\* b.Vel.Y *= -e
bounceWall_back(v) == f64Mul(v, f64Neg(e))

\* bounceWall: the top, bottom, left and right edge of the wall, the first that
\* applies
bounceWall(b, w) ==
    IF /\ f64Less(w.Y, f64Add(b.Pos.Y, b.Radius))
       /\ f64Less(f64Add(b.Pos.Y, b.Radius), f64Add(w.Y, w.H))
       /\ f64Less(w.X, b.Pos.X) /\ f64Less(b.Pos.X, f64Add(w.X, w.W)) /\ b.Vel.Y.sgn > 0
    THEN [b EXCEPT !.Pos.Y = f64Sub(w.Y, b.Radius), !.Vel.Y = bounceWall_back(@)]
    ELSE IF /\ f64Less(f64Sub(b.Pos.Y, b.Radius), f64Add(w.Y, w.H))
            /\ f64Less(w.Y, f64Sub(b.Pos.Y, b.Radius))
            /\ f64Less(w.X, b.Pos.X) /\ f64Less(b.Pos.X, f64Add(w.X, w.W)) /\ b.Vel.Y.sgn < 0
    THEN [b EXCEPT !.Pos.Y = f64Add(f64Add(w.Y, w.H), b.Radius), !.Vel.Y = bounceWall_back(@)]
    ELSE IF /\ f64Less(w.X, f64Add(b.Pos.X, b.Radius))
            /\ f64Less(f64Add(b.Pos.X, b.Radius), f64Add(w.X, w.W))
            /\ f64Less(w.Y, b.Pos.Y) /\ f64Less(b.Pos.Y, f64Add(w.Y, w.H)) /\ b.Vel.X.sgn > 0
    THEN [b EXCEPT !.Pos.X = f64Sub(w.X, b.Radius), !.Vel.X = bounceWall_back(@)]
    ELSE IF /\ f64Less(f64Sub(b.Pos.X, b.Radius), f64Add(w.X, w.W))
            /\ f64Less(w.X, f64Sub(b.Pos.X, b.Radius))
            /\ f64Less(w.Y, b.Pos.Y) /\ f64Less(b.Pos.Y, f64Add(w.Y, w.H)) /\ b.Vel.X.sgn < 0
    THEN [b EXCEPT !.Pos.X = f64Add(f64Add(w.X, w.W), b.Radius), !.Vel.X = bounceWall_back(@)]
    ELSE b

\* uint8(math.Min(v*2*255, 255))
channel(v) == f64Trunc(f64Min(f64Mul(f64Mul(v, f64OfInt(2)), f64OfInt(255)), f64OfInt(255)))

\* the colour of a ratio speedSq / maxSpeedSq
colorOf(ratio) ==
    [R |-> channel(ratio),
     G |-> channel(f64Sub(f64OfInt(1), f64Abs(f64Sub(ratio, f64OfRat(1, 2))))),
     B |-> channel(f64Sub(f64OfInt(1), ratio)),
     A |-> 255]

\* getColorBySpeed: the ratio of the squared speed to 500, mapped to red, green, blue
getColorBySpeed(b) ==
    colorOf(f64Div(f64Min(LengthSq(b.Vel), f64OfInt(500)), f64OfInt(500)))

\* a wall of initGame
wall(x, y, w, h) == [X |-> f64OfInt(x), Y |-> f64OfInt(y), W |-> f64OfInt(w), H |-> f64OfInt(h)]

\* the walls of initGame: top, bottom, left, right, shelf, pillar (wallThickness 20)
walls ==
    << wall(0, 0, screenW, 20), wall(0, screenH - 20, screenW, 20),
       wall(0, 0, 20, screenH), wall(screenW - 20, 0, 20, screenH),
       wall(100, 650, 350, 30), wall(450, 500, 50, 180) >>

White == [R |-> 255, G |-> 255, B |-> 255, A |-> 255]

\* x = math.Max(BallRadius, math.Min(x, float64(screenW)-BallRadius))
clampedInto(x, size) == f64Max(BallRadius, f64Min(f64OfInt(x), f64Sub(f64OfInt(size), BallRadius)))

\* Game.handleInput: a just-pressed mouse button or touch (the touch position wins)
\* appends a ball at the position, clamped into the screen; d.vx and d.vy are the
\* values of rand.IntN(500)
handleInput(bs, mouse, touch, d) ==
    IF mouse = NoClick /\ touch = NoClick THEN bs
    ELSE LET at == IF touch # NoClick THEN touch ELSE mouse IN
         Append(bs, [Pos |-> [X |-> clampedInto(at[1], screenW),
                              Y |-> clampedInto(at[2], screenH)],
                     Vel |-> [X |-> f64Div(f64OfInt(d.vx - 250), f64OfInt(100)),
                              Y |-> f64Div(f64OfInt(d.vy - 250), f64OfInt(100))],
                     Radius |-> f64OfInt(10), Mass |-> f64OfInt(1),
                     Color |-> White])

\* the wall loop of Game.Update for one ball, from wall k on; the ball that wall k
\* leaves is worked out before the next wall is tried
RECURSIVE bounceWalls(_, _)
bounceWalls(b, k) ==
    IF k > Len(walls) THEN b
    ELSE CHOOSE r \in { bounceWalls(n, k + 1) : n \in { bounceWall(b, walls[k]) } } : TRUE

\* if circlesCollided(balls[i], balls[j]) { bounceBalls(balls[i], balls[j]) }
collided(b1, b2) == IF circlesCollided(b1, b2) THEN bounceBalls(b1, b2) ELSE << b1, b2 >>

\* the ball-ball loop of Game.Update from the pair i, j on
RECURSIVE collidePairs(_, _, _)
collidePairsWith(bs, i, j, r) == collidePairs([bs EXCEPT ![i] = r[1], ![j] = r[2]], i, j + 1)

collidePairs(bs, i, j) ==
    IF i > Len(bs) THEN bs
    ELSE IF j > Len(bs) THEN collidePairs(bs, i + 1, i + 2)
    ELSE collidePairsWith(bs, i, j, collided(bs[i], bs[j]))

\* the physics step of Game.Update for one ball: applyForce, updatePosition and
\* b.Color = getColorBySpeed(b)
coloured(b) == [b EXCEPT !.Color = getColorBySpeed(b)]

moved(b) == coloured(updatePosition(applyForce(b, gravity)))

\* centres of the second ball in units of 1/FF (the first is at 400, 100; the
\* radius is 10): on the first, a millionth beside it, overlapping it, touching
\* it, apart, and with its top in the top wall
Balls_Centres ==
    { << 400 * FF, 100 * FF >>, << 400 * FF + 1, 100 * FF + 1 >>, << 403 * FF, 104 * FF >>,
      << 400 * FF, 110 * FF >>, << 420 * FF, 100 * FF >>, << 418 * FF, 106 * FF >>,
      << 300 * FF, 25 * FF >> }

\* velocities of a ball: rand.IntN(10) - 5 in each direction
Balls_Velocities == { << 0, 0 >>, << 2, -1 >>, << -3, 4 >>, << -5, -5 >> }

\* ebiten.CursorPosition() at a click
Balls_Cursor == { << 400, 400 >> }

\* ebiten.TouchPosition() at a tap
Balls_Touch == { << 5, 795 >> }

\* the values of rand.IntN(500) in handleInput
Balls_Draws == { [vx |-> 0, vy |-> 499], [vx |-> 250, vy |-> 0] }

\* a ball as initGame makes it, at a centre given in units of 1/FF
ball(c, v) ==
    [Pos |-> [X |-> f64OfFF(c[1]), Y |-> f64OfFF(c[2])],
     Vel |-> [X |-> f64OfInt(v[1]), Y |-> f64OfInt(v[2])],
     Radius |-> BallRadius, Mass |-> f64OfInt(1), Color |-> White]

InitBalls ==
    /\ prog = "balls"
    /\ \E c \in Balls_Centres, v1, v2 \in Balls_Velocities :
          particles = << ball(<< 400 * FF, 100 * FF >>, v1), ball(c, v2) >>
    /\ camera = NoCamera
    /\ emitters = << >>
    /\ tick = 0
    /\ clicks = 0
    /\ mid = << >>
    /\ bursts = {}
    /\ since = << >>
    /\ uses = << >>
    /\ ret = "nil"
    /\ calls = NoCalls
    /\ drawn = << >>
    /\ batches = NoBatches

\* Normalized applied to the vector between the centres; drawn holds the result
StepNormalized ==
    /\ prog = "balls"
    /\ ret = "nil"
    /\ drawn' = << Normalized(between(particles[1], particles[2])) >>
    /\ mid' = particles
    /\ ret' = "Normalized"
    /\ UNCHANGED <<prog, particles, emitters, tick, clicks, bursts, since, uses, calls,
                   camera, batches>>

\* bounceBalls applied to the two balls; mid holds the balls before the call
StepBounceBalls ==
    /\ prog = "balls"
    /\ ret = "nil"
    /\ particles' = bounceBalls(particles[1], particles[2])
    /\ mid' = particles
    /\ ret' = "bounceBalls"
    /\ UNCHANGED <<prog, emitters, tick, clicks, bursts, since, uses, calls, drawn,
                   camera, batches>>

\* Game.Update of the balls: input, force and movement, walls, ball-ball
\* collisions; mid holds the balls as the ball-ball loop finds them
UpdateBalls ==
    /\ prog = "balls"
    /\ ret \in {"nil", "Update"}
    /\ tick < Balls_MaxTicks
    /\ \E mouse \in {NoClick} \cup (IF clicks < MaxClicks THEN Balls_Cursor ELSE {}),
          touch \in {NoClick} \cup (IF clicks < MaxClicks THEN Balls_Touch ELSE {}) :
       \E d \in (IF mouse = NoClick /\ touch = NoClick
                  THEN { [vx |-> 0, vy |-> 0] } ELSE Balls_Draws) :
          \E b0 \in { handleInput(particles, mouse, touch, d) } :
          \E b1 \in { [i \in DOMAIN b0 |-> moved(b0[i])] } :
          \E b2 \in { [i \in DOMAIN b1 |-> bounceWalls(b1[i], 1)] } :
             /\ particles' = collidePairs(b2, 1, 2)
             /\ mid' = b2
             /\ clicks' = IF mouse = NoClick /\ touch = NoClick THEN clicks ELSE clicks + 1
    /\ tick' = tick + 1
    /\ ret' = "Update"
    /\ UNCHANGED <<prog, emitters, bursts, since, uses, calls, drawn, camera, batches>>

NextBalls == StepNormalized \/ StepBounceBalls \/ UpdateBalls

SpecBalls == InitBalls /\ [][NextBalls]_vars

-----------------------------------------------------------------------------
(* Properties of the pool *)

\* C1: the number of active particles never exceeds the capacity, before and after
\* integration, and allocateParticle returns nil when every slot is active.
C1_PoolInvariant ==
    /\ ActiveCount(particles) <= MaxParticles
    /\ ActiveCount(mid) <= MaxParticles
    /\ Len(particles) <= MaxParticles
    /\ (\A i \in DOMAIN particles : particles[i].active) => allocateParticle(particles) = 0
    /\ (\A i \in DOMAIN mid : mid[i].active) => allocateParticle(mid) = 0

\* a spawn request found fewer free slots than it asked for and filled the pool
C1_Witness ==
    /\ ActiveCount(mid) = MaxParticles
    /\ allocateParticle(mid) = 0
    /\ \E b \in bursts : b.made < b.n

\* C2: an active particle has 0 <= lifetime < maxLife both after the spawns of an
\* Update (before integration) and at the end of the Update.
C2_ActiveLifetimeInRange ==
    \A i \in DOMAIN particles :
        /\ mid[i].active => 0 <= mid[i].lifetime /\ mid[i].lifetime < mid[i].maxLife
        /\ particles[i].active =>
              0 <= particles[i].lifetime /\ particles[i].lifetime < particles[i].maxLife

\* a particle on its last active tick: still active with lifetime = maxLife - 1
C2_Witness ==
    \E i \in DOMAIN particles :
        /\ particles[i].active
        /\ particles[i].lifetime = particles[i].maxLife - 1
        /\ mid[i].active /\ mid[i].lifetime = particles[i].maxLife - 2

\* C3: allocateParticle returns an inactive slot whenever the pool has one, and nil
\* only when every slot is active.
C3_AllocateFindsFree ==
    /\ IF \E i \in DOMAIN particles : ~particles[i].active
       THEN /\ allocateParticle(particles) \in DOMAIN particles
            /\ ~particles[allocateParticle(particles)].active
       ELSE allocateParticle(particles) = 0
    /\ IF \E i \in DOMAIN mid : ~mid[i].active
       THEN /\ allocateParticle(mid) \in DOMAIN mid
            /\ ~mid[allocateParticle(mid)].active
       ELSE allocateParticle(mid) = 0

\* the only free slot is not the first one, and allocateParticle finds it
C3_Witness ==
    /\ particles[1].active
    /\ FreeCount(particles) = 1
    /\ allocateParticle(particles) > 1
    /\ ~particles[allocateParticle(particles)].active

\* C4: a spawn request of n particles that finds f free slots creates min(n, f)
\* particles; Update returns nil and its integration pass still runs on every
\* particle that is active after the spawns.
C4_BurstCreatesMin ==
    /\ \A b \in bursts : b.made = Min(b.n, b.free)
    /\ ret = "nil"
    /\ \A i \in DOMAIN particles :
          mid[i].active => particles[i].lifetime = mid[i].lifetime + 1

\* a request larger than the free slots left was cut to them, and the particles it
\* made were integrated in the same Update
C4_Witness ==
    /\ \E b \in bursts : b.free > 0 /\ b.free < b.n /\ b.made = b.free
    /\ ret = "nil"
    /\ \E i \in DOMAIN particles : since[i] = 1 /\ mid[i].active /\ particles[i].lifetime = 1

\* C5: a particle that was active before the integration of an Update and is
\* inactive after it has lifetime >= maxLife or lies outside the off-screen margin of
\* its program (Concert.main.go has no margin).
C5_DeactivationCause ==
    \A i \in DOMAIN particles :
        mid[i].active /\ ~particles[i].active =>
            \/ particles[i].lifetime >= particles[i].maxLife
            \/ /\ prog \in {"smokefire", "release"}
               /\ \/ particles[i].x < -100 * FP
                  \/ particles[i].x > 740 * FP
                  \/ particles[i].y < -200 * FP
                  \/ particles[i].y > 680 * FP
            \/ /\ prog \in {"show", "releaseShow"}
               /\ \/ particles[i].x < -200 * FP
                  \/ particles[i].x > 1480 * FP
                  \/ particles[i].y < -300 * FP
                  \/ particles[i].y > 1120 * FP

\* a particle deactivated before its lifespan ran out, because it left the margin
C5_Witness ==
    \E i \in DOMAIN particles :
        /\ mid[i].active /\ ~particles[i].active
        /\ particles[i].lifetime < particles[i].maxLife
        /\ particles[i].lifetime = mid[i].lifetime + 1

\* C6: expiry happens exactly on the tick in which lifetime becomes maxLife: the
\* particle is inactive after that tick, no particle is active with lifetime =
\* maxLife, and a particle inside the margin whose lifetime became maxLife - 1 is
\* still active.
C6_ExpiryOnExactTick ==
    \A i \in DOMAIN particles :
        /\ particles[i].active => particles[i].lifetime # particles[i].maxLife
        /\ mid[i].active /\ mid[i].lifetime + 1 = mid[i].maxLife =>
              ~particles[i].active /\ particles[i].lifetime = particles[i].maxLife
        /\ mid[i].active /\ mid[i].lifetime + 1 = mid[i].maxLife - 1 =>
              \/ particles[i].active /\ particles[i].lifetime = particles[i].maxLife - 1
              \/ /\ prog \in {"smokefire", "release"}
                 /\ \/ particles[i].x < -100 * FP
                    \/ particles[i].x > 740 * FP
                    \/ particles[i].y < -200 * FP
                    \/ particles[i].y > 680 * FP
              \/ /\ prog \in {"show", "releaseShow"}
                 /\ \/ particles[i].x < -200 * FP
                    \/ particles[i].x > 1480 * FP
                    \/ particles[i].y < -300 * FP
                    \/ particles[i].y > 1120 * FP

\* a particle that was active with lifetime = maxLife - 1 expired in the last Update
C6_Witness ==
    \E i \in DOMAIN particles :
        /\ mid[i].active /\ mid[i].lifetime = mid[i].maxLife - 1
        /\ ~particles[i].active /\ particles[i].lifetime = particles[i].maxLife
        /\ since[i] = particles[i].maxLife

\* C7 as stated: in the scenario (capacity 10, one particle per tick, lifespan 5)
\* the active count after each tick reaches the lifespan, 5, after 5 ticks and is
\* 5 after every later tick.
C7_AsStated ==
    (prog = "scenario1" /\ tick >= S1_Lifespan) => ActiveCount(particles) = S1_Lifespan

\* C7, amended: a particle spawned in tick t is integrated in tick t already and
\* expires in the tick in which its lifetime reaches the lifespan, so the active
\* count after tick t is t up to tick lifespan - 1 = 4 and is 4 after every later
\* tick; the pool keeps its capacity and every particle has the lifespan.
C7_StabilizesAtFour ==
    (prog = "scenario1") =>
        /\ ActiveCount(particles) = Min(tick, S1_Lifespan - 1)
        /\ Len(particles) = S1_Capacity
        /\ \A i \in DOMAIN particles :
              particles[i].active => particles[i].maxLife = S1_Lifespan

\* after tick 7 of the scenario four particles are active, five were before the
\* update loop, slots were reused, and a particle expired in this tick
C7_Witness ==
    /\ prog = "scenario1"
    /\ tick = 7
    /\ ActiveCount(particles) = 4
    /\ ActiveCount(mid) = 5
    /\ \E i \in DOMAIN particles : uses[i] = 2
    /\ \E i \in DOMAIN particles : mid[i].active /\ ~particles[i].active

\* C8: releasing a slot twice gives what releasing it once gives; a particle that
\* expires in update() and also fails the off-screen test of the same pass ends as
\* the expiry alone leaves it: inactive, lifetime advanced, nothing else changed.
C8_ReleaseIdempotent ==
    prog \in {"release", "releaseShow"} /\ tick = 1 =>
        \A i \in DOMAIN particles :
            /\ release(release(mid[i])) = release(mid[i])
            /\ release(release(particles[i])) = release(particles[i])
            /\ mid[i].active /\ mid[i].lifetime + 1 >= mid[i].maxLife =>
                  particles[i] = [mid[i] EXCEPT !.lifetime = mid[i].lifetime + 1,
                                                !.active = FALSE]

\* a particle expired in update() while it lay outside the margin, so the loop
\* released it twice
C8_Witness ==
    /\ prog \in {"release", "releaseShow"}
    /\ tick = 1
    /\ \E i \in DOMAIN particles :
          /\ mid[i].active
          /\ mid[i].lifetime + 1 = mid[i].maxLife
          /\ \/ prog = "release" /\ mid[i].x < -100 * FP
             \/ prog = "releaseShow" /\ mid[i].y > 1120 * FP
          /\ ~particles[i].active

\* C9: a particle spawned with lifespan L is inactive at the latest after L Update
\* calls, counted from and including the one that spawned it: while it is active,
\* fewer than L such calls have been made.
C9_DeactivatedWithinLifespan ==
    \A i \in DOMAIN particles :
        /\ particles[i].active => since[i] < particles[i].maxLife
        /\ since[i] > 0 => since[i] <= particles[i].maxLife

\* a particle lived its whole lifespan: it went inactive in the L-th Update
C9_Witness ==
    \E i \in DOMAIN particles :
        /\ ~particles[i].active
        /\ particles[i].maxLife > 0
        /\ since[i] = particles[i].maxLife
        /\ mid[i].active

\* C10: a slot allocated in an Update holds, right after its initialisation, active =
\* TRUE, lifetime = 0 and a maxLife > 0 from the range its kind draws from, whatever
\* it held before; at the end of that Update it has been integrated once.
C10_ReuseOverwrites ==
    \A i \in DOMAIN particles :
        since[i] = 1 =>
            /\ uses[i] >= 1
            /\ mid[i].active
            /\ mid[i].lifetime = 0
            /\ mid[i].maxLife > 0
            /\ particles[i].lifetime = 1
            /\ prog = "smokefire" =>
                  IF mid[i].pType = TypeSmoke THEN mid[i].maxLife \in 240..299
                  ELSE mid[i].maxLife \in 45..74
            /\ prog = "concert" => mid[i].maxLife \in 40..79
            /\ prog = "show" =>
                  IF mid[i].kind = KindFire THEN mid[i].maxLife \in 30..79
                  ELSE mid[i].maxLife \in 120..319

\* a slot that was used and released before has just been allocated again
C10_Witness ==
    \E i \in DOMAIN particles :
        /\ since[i] = 1
        /\ uses[i] >= 2
        /\ mid[i].active /\ mid[i].lifetime = 0 /\ mid[i].maxLife > 0

\* C11 as stated: the pool has C slots from construction on and no Update changes
\* the number of slots.
C11_AsStated ==
    [][Len(particles) = MaxParticles /\ Len(particles') = Len(particles)]_vars

\* C11, amended: part_000, Concert.main.go and amazing.main.go hold exactly C slots
\* from construction on; smoke.main.go starts with none and adds one record when a
\* spawn finds no inactive slot, never more than one per Update and never beyond C.
C11_FixedOrGrownToCapacity ==
    /\ prog \in {"smokefire", "concert", "show"} =>
          Len(particles) = MaxParticles /\ Len(mid) = MaxParticles
    /\ prog = "smoke" =>
          /\ Len(particles) <= MaxParticles
          /\ Len(particles) <= tick
          /\ Len(mid) = Len(particles)
          /\ \A i \in DOMAIN particles : uses[i] >= 1

\* the pool of smoke.main.go has grown to its capacity and an Update has run since
C11_Witness ==
    /\ prog = "smoke"
    /\ Len(particles) = MaxParticles
    /\ tick > MaxParticles
    /\ bursts = {}

-----------------------------------------------------------------------------
(* Properties of the emitters *)

\* C15: every call of Emitter.spawn advances the counter by one and leaves a
\* positive rate alone, a rate <= 0 becomes 1; when the new counter is a multiple
\* of the rate the call asks for 2 particles, so that it activates 2 slots, or as
\* many as are free, and otherwise it activates none.
C15_FixedInterval ==
    [][prog = "emitter" =>
          /\ emitters'[1].counter = emitters[1].counter + 1
          /\ emitters'[1].rate = (IF emitters[1].rate <= 0 THEN 1 ELSE emitters[1].rate)
          /\ ActiveCount(particles') - ActiveCount(particles) =
                (IF emitters'[1].counter % emitters'[1].rate = 0
                 THEN Min(2, FreeCount(particles)) ELSE 0)]_vars

\* an emitter built with a rate <= 0 has fired on every tick until the pool was
\* full, and its counter has gone on since
C15_Witness ==
    /\ prog = "emitter"
    /\ emitters[1].rate = 1
    /\ emitters[1].counter > MaxParticles
    /\ FreeCount(particles) = 0
    /\ bursts = { [n |-> 2, free |-> 0, made |-> 0] }

\* C16 as stated: the emitters of the show ask for at most spawnPerFrame particles
\* in one Update, whatever the draws.
C16_AsStated ==
    prog = "caps" => calls.total + calls.extra <= spawnPerFrame

\* C16, amended: the pulsed spawn loops of the emitters make at most spawnPerFrame
\* calls of spawnAt in one Update, summed over the emitters, and at most 250 for one
\* emitter; the surprise bursts are not counted and come on top, 220 calls or more each.
C16_PulsedSpawnsCapped ==
    prog = "caps" =>
        /\ calls.total <= spawnPerFrame
        /\ \A j \in DOMAIN calls.each : calls.each[j] >= 0 /\ calls.each[j] <= 250
        /\ calls.extra = 0 \/ calls.extra >= 220

\* the cap has cut the loops: the first emitters used up spawnPerFrame and the last got none
C16_Witness ==
    /\ prog = "caps"
    /\ calls.total = spawnPerFrame
    /\ Len(calls.each) = 9
    /\ calls.each[1] = 40
    /\ calls.each[9] = 0

-----------------------------------------------------------------------------
(* Properties of the integrator *)

\* C12 as stated: position and angle of an integrated particle are advanced on every
\* tick, also on the tick in which it expires.
C12_AsStated ==
    \A i \in DOMAIN particles :
        mid[i].active =>
            /\ particles[i].x = mid[i].x + mid[i].vx
            /\ particles[i].y = mid[i].y + mid[i].vy
            /\ particles[i].angle = mid[i].angle + mid[i].angularVelocity

\* C12, amended: the age is incremented first and the expiry test follows at once; a
\* particle that expires is changed no further; one that does not has its position
\* advanced by the velocity it had, its angle by its angular velocity, and then the
\* forces of its kind applied to the velocity.
C12_AgeAndExpiryFirst ==
    \A i \in DOMAIN particles :
        mid[i].active =>
            /\ particles[i].lifetime = mid[i].lifetime + 1
            /\ IF mid[i].lifetime + 1 >= mid[i].maxLife
               THEN particles[i] = [mid[i] EXCEPT !.lifetime = mid[i].lifetime + 1,
                                                  !.active = FALSE]
               ELSE /\ particles[i].x = mid[i].x + mid[i].vx
                    /\ particles[i].y = mid[i].y + mid[i].vy
                    /\ particles[i].angle = mid[i].angle + mid[i].angularVelocity
                    /\ prog \in {"smokefire", "release"} =>
                          /\ particles[i].vx = mid[i].vx
                          /\ particles[i].vy = mid[i].vy + (5 * FP) \div 100
                    /\ prog = "concert" =>
                          /\ particles[i].z = mid[i].z + mid[i].vz
                          /\ particles[i].vx = mid[i].vx
                          /\ particles[i].vy = mid[i].vy + (2 * FP) \div 100
                          /\ particles[i].vz = mul(mid[i].vz, 980)
                    /\ prog \in {"show", "releaseShow"} =>
                          /\ particles[i].z = mid[i].z + mid[i].vz
                          /\ IF mid[i].kind = KindFire
                             THEN /\ particles[i].vy = mul(mid[i].vy - (15 * FP) \div 1000, 999)
                                  /\ particles[i].vx = mul(mid[i].vx, 998)
                                  /\ particles[i].vz = mul(mid[i].vz, 994)
                             ELSE /\ particles[i].vy = mid[i].vy - (10 * FP) \div 1000
                                  /\ particles[i].vx - mid[i].vx \in WobbleDraws
                                  /\ particles[i].vz = mul(mid[i].vz, 995)

\* a moving particle expired in the last Update and stayed where it was
C12_Witness ==
    \E i \in DOMAIN particles :
        /\ mid[i].active /\ ~particles[i].active
        /\ particles[i].lifetime = particles[i].maxLife
        /\ mid[i].vx # 0
        /\ particles[i].x = mid[i].x

\* C13: an Update leaves every field of a slot that is inactive and that it does not
\* allocate unchanged, and a particle that expires in an Update keeps the position,
\* velocity and angle it had: after the release nothing of it is changed.
C13_InactiveUntouched ==
    [][\A i \in DOMAIN particles :
          /\ ~particles[i].active /\ ~mid'[i].active => particles'[i] = particles[i]
          /\ mid'[i].active /\ mid'[i].lifetime + 1 >= mid'[i].maxLife =>
                particles'[i] = [mid'[i] EXCEPT !.lifetime = mid'[i].lifetime + 1,
                                                !.active = FALSE]]_vars

\* a released slot with a velocity and an age went through a whole Update as it was
C13_Witness ==
    \E i \in DOMAIN particles :
        /\ ~particles[i].active /\ ~mid[i].active
        /\ since[i] = 0 /\ uses[i] >= 1
        /\ particles[i].lifetime > 0 /\ particles[i].vx # 0
        /\ particles[i] = mid[i]

\* C14: after every Update each active particle lies inside the margin of its
\* program: -100 <= x <= screenWidth + 100 and -200 <= y <= screenHeight + 200 in
\* part_000, -200 <= x <= screenWidth + 200 and -300 <= y <= screenHeight + 400 in
\* the show.
C14_ActiveInsideMargin ==
    \A i \in DOMAIN particles :
        particles[i].active =>
            /\ prog = "smokefire" =>
                  /\ -100 * FP <= particles[i].x /\ particles[i].x <= (640 + 100) * FP
                  /\ -200 * FP <= particles[i].y /\ particles[i].y <= (480 + 200) * FP
            /\ prog = "show" =>
                  /\ -200 * FP <= particles[i].x /\ particles[i].x <= (1280 + 200) * FP
                  /\ -300 * FP <= particles[i].y /\ particles[i].y <= (720 + 400) * FP

\* an active particle has left the screen and is within ten pixels of the margin
C14_Witness ==
    \/ /\ prog = "smokefire"
       /\ \E i \in DOMAIN particles :
             particles[i].active /\ particles[i].x < -90 * FP /\ particles[i].x >= -100 * FP
    \/ /\ prog = "show"
       /\ \E i \in DOMAIN particles :
             particles[i].active /\ particles[i].y < -290 * FP /\ particles[i].y >= -300 * FP

\* C17 as stated: the integrator draws nothing, so the particle an Update leaves in a
\* slot is the same for any two values of the random source.
C17_AsStated ==
    prog = "show" =>
        \A i \in DOMAIN particles : \A r1, r2 \in WobbleDraws :
            Show_updateParticle(particles[i], r1) = Show_updateParticle(particles[i], r2)

\* C17, amended: the integration of a fire particle, of an inactive slot and of a
\* particle on its expiry tick does not depend on the random source; an ember that
\* lives on draws one value, which enters its x-velocity and nothing else.
C17_DeterministicButEmbers ==
    prog = "show" =>
        \A i \in DOMAIN particles : \A r1, r2 \in WobbleDraws :
            /\ (\/ ~particles[i].active
                \/ particles[i].kind = KindFire
                \/ particles[i].lifetime + 1 >= particles[i].maxLife) =>
                  Show_updateParticle(particles[i], r1) = Show_updateParticle(particles[i], r2)
            /\ [Show_updateParticle(particles[i], r1) EXCEPT !.vx = 0]
                  = [Show_updateParticle(particles[i], r2) EXCEPT !.vx = 0]
            /\ (/\ particles[i].active
                /\ particles[i].kind = KindEmber
                /\ particles[i].lifetime + 1 < particles[i].maxLife) =>
                  Show_updateParticle(particles[i], r1).vx - Show_updateParticle(particles[i], r2).vx
                      = r1 - r2

\* a fire particle and an ember are active in the show, both with ticks to live
C17_Witness ==
    /\ prog = "show"
    /\ \E i, j \in DOMAIN particles :
          /\ particles[i].active /\ particles[i].kind = KindFire
          /\ particles[i].lifetime + 1 < particles[i].maxLife
          /\ particles[j].active /\ particles[j].kind = KindEmber
          /\ particles[j].lifetime + 1 < particles[j].maxLife

-----------------------------------------------------------------------------
(* Properties of Game.Draw *)

\* the elements of a sequence
Range(s) == { s[i] : i \in DOMAIN s }

\* the ids of the elements of a sequence
Ids(s) == { s[i].id : i \in DOMAIN s }

\* C18: every Draw of a depth-sorted program draws the farthest item first: in
\* bubbles.main.go and part_001 the depths never increase along the items drawn,
\* in the lifetime-colour program the z values never decrease; and the items drawn
\* are exactly the visible (active) ones.
C18_FarthestFirst ==
    [][/\ DrawBubbles \/ DrawPart001 =>
             /\ \A i, j \in DOMAIN drawn' :
                   i < j => ~f64Less(drawn'[i].depth, drawn'[j].depth)
             /\ Ids(drawn') = { p.id : p \in { q \in Range(particles) :
                                   q.ok /\ (prog = "bubbles" => q.a >= 10) } }
             /\ Len(drawn') = Cardinality(Ids(drawn'))
       /\ DrawLifetime =>
             /\ \A i, j \in DOMAIN drawn' : i < j => drawn'[i].z <= drawn'[j].z
             /\ Ids(drawn') = { p.id : p \in { q \in Range(particles) : q.active } }
             /\ Len(drawn') = Cardinality(Ids(drawn'))]_vars

\* three items were drawn in another order than the list holds them
C18_Witness ==
    /\ prog \in {"bubbles", "lifetime"}
    /\ Len(drawn) = 3
    /\ drawn[1].id = 3
    /\ drawn[3].id = 1

\* C19: the quads of Concert.main.go and of the show are appended in depth order,
\* whichever end of the z axis is taken to be the far one: the z values along the
\* batch never increase, or they never decrease.
C19_AsStated ==
    prog \in {"concert", "show"} =>
        \E b \in { IF prog = "concert" THEN Concert_Draw(particles) ELSE Show_Draw(particles) } :
           \/ \A i, j \in DOMAIN b : i < j => b[i].z >= b[j].z
           \/ \A i, j \in DOMAIN b : i < j => b[i].z <= b[j].z

\* C20: items of equal depth are drawn in the order in which the particle list
\* holds them.
C20_Stable ==
    \A i, j \in DOMAIN drawn :
        (i < j /\ (IF prog = "lifetime" THEN drawn[i].z = drawn[j].z
                   ELSE drawn[i].depth = drawn[j].depth))
           => drawn[i].id < drawn[j].id

-----------------------------------------------------------------------------
(* Properties of the projection and the fade *)

\* the camera that looks straight ahead, for which z2 = z + 600
Straight == [siny |-> 0, cosy |-> FP, sinp |-> 0, cosp |-> FP]

\* the fade multiplier of a draw item
AlphaOf(it) == IF prog = "Project" THEN it.alpha ELSE it.alphaMult

\* the floor of the depth fade, in units of 1/FP
FloorOf == IF prog = "Project" THEN 200 ELSE 250

\* C21 as stated: the fade multiplier of every item drawn is at least the floor.
C21_AsStated ==
    prog \in {"Project", "projected"} =>
        \A i \in DOMAIN drawn : ~f64Less(AlphaOf(drawn[i]), f64OfFP(FloorOf))

\* the depth from which on 1 - (depth-200)/1200 is at or below the floor: 1160 in
\* bubbles.main.go, 1100 in part_001
FloorDepth == 200 + 1200 - (1200 * FloorOf) \div FP

\* C21, amended: the floor bounds the depth fade, not the fade multiplier: the
\* multiplier of every item drawn is at least lifeRatio * floor, it is exactly
\* lifeRatio * floor from the depth on at which the raw depth fade reaches the
\* floor, and it is at least the floor whenever the particle has its full life.
C21_FloorOnDepthFade ==
    prog \in {"Project", "projected"} =>
        \A i \in DOMAIN drawn :
           \E p \in {particles[drawn[i].id]} :
              /\ ~f64Less(AlphaOf(drawn[i]), f64Mul(lifeRatio(p), f64OfFP(FloorOf)))
              /\ ~f64Less(drawn[i].depth, f64OfInt(FloorDepth))
                    => AlphaOf(drawn[i]) = f64Mul(lifeRatio(p), f64OfFP(FloorOf))
              /\ p.life = p.maxLife => ~f64Less(AlphaOf(drawn[i]), f64OfFP(FloorOf))

\* an item far behind the cloud was drawn with half its life left: its depth fade
\* is the floor 0.2 and its fade multiplier half of that, below the floor
C21_Witness ==
    /\ prog = "Project"
    /\ \E i \in DOMAIN drawn :
          /\ drawn[i].depth = f64OfInt(1600)
          /\ particles[drawn[i].id].life = 50
          /\ drawn[i].alpha = f64OfRat(1, 10)
          /\ f64Less(drawn[i].alpha, f64OfRat(2, 10))
          /\ drawn[i].a = 25

\* C22 as stated: seen straight ahead, a particle at depth 10 makes no draw item,
\* and a particle one unit closer to the camera, at depth 9, makes one.
C22_AsStated ==
    [][(prog = "projected" /\ camera = Straight) =>
          \A i \in DOMAIN particles :
             /\ particles[i].z + 600 * FP = 10 * FP => i \notin Ids(drawn')
             /\ particles[i].z + 600 * FP = 9 * FP => i \in Ids(drawn')]_vars

\* C22, amended: a particle at depth 10 or nearer makes no draw item, under every
\* camera; a particle one unit farther, at depth 11, is visible at that depth,
\* whatever its life: part_001 draws it, bubbles.main.go draws it unless its 8-bit
\* alpha is below 10. Every item drawn has a depth above 10 and a positive scale,
\* so that focalLength / depth divides by no zero; and Draw leaves the particle
\* list as it was.
C22_NearClip ==
    [][(prog \in {"Project", "projected"}) =>
          /\ particles' = particles
          /\ \A k \in DOMAIN drawn' : f64Less(f64OfInt(10), drawn'[k].depth)
          /\ prog = "projected" => \A k \in DOMAIN drawn' : drawn'[k].scale.sgn > 0
          /\ prog = "Project" => \A k \in DOMAIN drawn' : drawn'[k].size.sgn > 0
          /\ \A i \in DOMAIN particles :
                f64LessEq(rotated(particles[i], camera).z2, f64OfInt(10))
                   => i \notin Ids(drawn')
          /\ camera = Straight =>
                \A i \in DOMAIN particles :
                   /\ particles[i].z + 600 * FP <= 10 * FP => i \notin Ids(drawn')
                   /\ (particles[i].z + 600 * FP = 11 * FP /\ prog = "projected") =>
                         \E k \in DOMAIN drawn' :
                            (drawn'[k].id = i /\ drawn'[k].depth = f64OfInt(11))
                   /\ (particles[i].z + 600 * FP = 11 * FP /\ prog = "Project") =>
                         /\ Project(particles[i], camera).visible
                         /\ Project(particles[i], camera).depth = f64OfInt(11)
                         /\ i \in Ids(drawn')
                               <=> alpha8(fadeAlpha(particles[i], f64OfInt(11), 200)) >= 10]_vars

\* a list of a particle on the near plane and one a unit behind it was drawn:
\* the frame holds the second only
C22_Witness ==
    /\ prog = "projected"
    /\ camera = Straight
    /\ Len(particles) = 2
    /\ particles[1].z = -590 * FP
    /\ particles[2].z = -589 * FP
    /\ Len(drawn) = 1
    /\ drawn[1].id = 2
    /\ drawn[1].depth = f64OfInt(11)

-----------------------------------------------------------------------------
(* Properties of the frames *)

\* the pool slots whose quads buffer b holds
Slots(b) == { b.vertices[k].slot : k \in DOMAIN b.vertices }

\* C23 as stated, for the program that has a drop threshold (bubbles.main.go,
\* which tests uint8(255 * alpha) against 10): the 255 * alpha of what is drawn
\* exceeds the threshold, what is at or below it is not drawn.
C23_AsStated ==
    (prog = "Project") =>
        \A k \in DOMAIN drawn :
           f64Less(f64OfInt(10), f64Mul(f64OfInt(255), drawn[k].alpha))

\* C23 (amended): bubbles.main.go draws exactly the visible particles whose 8-bit
\* alpha is at least 10, the one at the threshold included; part_000 and
\* Concert.main.go have no drop threshold: Draw appends a quad for every active
\* particle and for no other slot, and the alpha of every quad is positive.
C23_DropOnlyInBubbles ==
    [][/\ (prog = "Project") =>
             Ids(drawn') = { i \in DOMAIN particles :
                               /\ Bubbles_item(particles[i], i, camera).ok
                               /\ Bubbles_item(particles[i], i, camera).a >= 10 }
       /\ (prog \in {"smokefire", "concert"} /\ (batches' # batches \/ drawn' # drawn)) =>
             /\ UNION { Slots(batches'[n]) : n \in DOMAIN batches' }
                   = { i \in DOMAIN particles : particles[i].active }
             /\ \A n \in DOMAIN batches' : \A k \in DOMAIN batches'[n].vertices :
                   IF prog = "smokefire" THEN batches'[n].vertices[k].alpha.sgn > 0
                   ELSE batches'[n].vertices[k].alpha > 0]_vars

\* bubbles.main.go drew a list of two visible particles: the one whose 8-bit alpha
\* is 9 made no draw call, the one whose 255 * alpha is the threshold was drawn
C23_Witness ==
    /\ prog = "Project"
    /\ Len(particles) = 2
    /\ Bubbles_item(particles[1], 1, camera).ok
    /\ Bubbles_item(particles[1], 1, camera).a = 9
    /\ Len(drawn) = 1
    /\ drawn[1].id = 2
    /\ f64Mul(f64OfInt(255), drawn[1].alpha) = f64OfInt(10)
    /\ drawn[1].a = 10

\* the programs that draw from vertex and index buffers
Batched == {"smokefire", "concert", "show", "smoke"}

\* C24: every batch holds four vertices and six indices per particle of its group:
\* len(vertices) = 4n and len(indices) = 6n for the n particles in the batch, the
\* four vertices of the k-th quad belong to one particle, its six indices are 4k,
\* 4k+1, 4k+2, 4k+1, 4k+3, 4k+2, and every index is below len(vertices).
C24_QuadLayout ==
    (prog \in Batched) =>
       \A n \in DOMAIN batches :
          \E b \in { batches[n] } :
             /\ Len(b.vertices) = 4 * Cardinality(Slots(b))
             /\ Len(b.indices) = 6 * Cardinality(Slots(b))
             /\ \A k \in 0..(Cardinality(Slots(b)) - 1) :
                   /\ \A c \in 1..4 : b.vertices[4 * k + c].slot = b.vertices[4 * k + 1].slot
                   /\ \A j \in 0..(k - 1) : b.vertices[4 * j + 1].slot < b.vertices[4 * k + 1].slot
                   /\ SubSeq(b.indices, 6 * k + 1, 6 * k + 6)
                         = << 4 * k, 4 * k + 1, 4 * k + 2, 4 * k + 1, 4 * k + 3, 4 * k + 2 >>
             /\ \A j \in DOMAIN b.indices : b.indices[j] < Len(b.vertices)

\* a frame of part_000 with two quads in one batch and one in the other
C24_Witness ==
    /\ prog = "smokefire"
    /\ batches # NoBatches
    /\ Len(batches.smoke.vertices) + Len(batches.fire.vertices) = 4 * MaxParticles
    /\ Len(batches.smoke.vertices) > 0
    /\ Len(batches.fire.indices) > 0

\* C25: Draw of part_000 puts every active fire particle in the additive batch and
\* every active smoke particle in the alpha batch, and nothing else in either: the
\* batches are disjoint, their quads number the active particles, a batch that
\* holds quads is submitted in exactly one draw call with its blend mode, and an
\* empty batch in none.
C25_Partition ==
    [][(prog = "smokefire" /\ (batches' # batches \/ drawn' # drawn)) =>
          /\ Slots(batches'.fire)
                = { i \in DOMAIN particles : particles[i].active /\ particles[i].pType = TypeFire }
          /\ Slots(batches'.smoke)
                = { i \in DOMAIN particles : particles[i].active /\ particles[i].pType = TypeSmoke }
          /\ Slots(batches'.fire) \cap Slots(batches'.smoke) = {}
          /\ Len(batches'.fire.vertices) \div 4 + Len(batches'.smoke.vertices) \div 4
                = ActiveCount(particles)
          /\ batches'.fire.calls = IF Slots(batches'.fire) = {} THEN << >>
                                   ELSE << CompositeModeLighter >>
          /\ batches'.smoke.calls = IF Slots(batches'.smoke) = {} THEN << >>
                                    ELSE << CompositeModeSourceOver >>]_vars

\* a frame of part_000 with fire and smoke, each batch submitted once
C25_Witness ==
    /\ prog = "smokefire"
    /\ batches # NoBatches
    /\ batches.fire.calls = << CompositeModeLighter >>
    /\ batches.smoke.calls = << CompositeModeSourceOver >>
    /\ Slots(batches.fire) \cup Slots(batches.smoke)
          = { i \in DOMAIN particles : particles[i].active }
    /\ \E i \in Slots(batches.fire) : particles[i].pType = TypeFire
    /\ \E i \in Slots(batches.smoke) : particles[i].pType = TypeSmoke

\* C26: the buffers Draw leaves are those it builds from empty buffers and the
\* current pool, whatever the buffers held before, and a second Draw of the same
\* pool leaves them as they are.
C26_RebuiltEachFrame ==
    [][(prog \in Batched /\ (batches' # batches \/ drawn' # drawn)) =>
          /\ particles' = particles
          /\ batches' = Frame(NoBatches, particles)
          /\ Frame(batches', particles') = batches']_vars

\* Draw has run twice in a row on a pool with active particles, the second time on
\* buffers that already held the frame
C26_Witness ==
    /\ prog \in {"smokefire", "concert"}
    /\ batches # NoBatches
    /\ drawn = batches
    /\ \E n \in DOMAIN batches : Len(batches[n].vertices) >= 8
    /\ batches = Frame(batches, particles)

-----------------------------------------------------------------------------
(* Properties of the particle lists *)

\* C27: in bubbles.main.go and part_001 the list never holds more than
\* maxParticles particles, after Update (the regeneration spawn of part_001
\* included) and after the spawn in the middle of it.
C27_ListWithinCapacity ==
    (prog \in {"bubbles", "part_001"}) =>
       /\ Len(particles) <= Cloud_MaxParticles
       /\ Len(mid) <= Cloud_MaxParticles

\* part_001 with a full list again after the first particles have died: the
\* regeneration spawn or the periodic spawn stopped at the capacity
C27_Witness ==
    /\ prog = "part_001"
    /\ tick > 81
    /\ Len(particles) = Cloud_MaxParticles
    /\ \E i \in DOMAIN particles : particles[i].maxLife - particles[i].life < 3

\* C28: in NewParticles.main.go the list never holds more than maxParticles (800)
\* particles, after Update and after the spawn in the middle of it.
C28_ListWithinCapacity ==
    (prog = "newparticles") =>
       /\ Len(particles) <= NP_maxParticles
       /\ Len(mid) <= NP_maxParticles

\* the longest list the program reaches: 450 particles after a spawn, of which the
\* five oldest die in the same Update, and 445 after the compaction
C28_Witness ==
    /\ prog = "newparticles"
    /\ Len(mid) = 450
    /\ Len(particles) = 445
    /\ \E i \in DOMAIN particles : particles[i].life = 2

\* C29: in NewParticles.main.go, bubbles.main.go and part_001 every particle of the
\* list has 0 < life <= maxLife, after its creation and after every Update, and its
\* remaining-life ratio life/maxLife is above 0 and at most 1.
C29_AsStated ==
    (prog \in {"newparticles", "bubbles", "part_001"}) =>
       /\ \A i \in DOMAIN particles :
             /\ 0 < particles[i].life
             /\ particles[i].life <= particles[i].maxLife
             /\ NP_ratio(particles[i]) > 0
             /\ NP_ratio(particles[i]) <= FP
       /\ \A i \in DOMAIN mid :
             /\ 0 < mid[i].life
             /\ mid[i].life <= mid[i].maxLife

-----------------------------------------------------------------------------
(* Properties of the vectors and the balls *)

\* C30: Normalized of the zero vector is the zero vector, and bounceBalls called
\* on two balls whose centres coincide, directly or by the ball-ball loop of
\* Game.Update on the only pair, leaves position, velocity, radius and mass of both
\* balls as they were.
C30_TotalAtZero ==
    (prog = "balls" /\ ret # "nil") =>
       /\ (ret = "Normalized" /\ between(mid[1], mid[2]) = ZeroVector) =>
             drawn = << ZeroVector >>
       /\ (ret = "Normalized" /\ between(mid[1], mid[2]) # ZeroVector) =>
             drawn[1] # ZeroVector
       /\ (ret = "bounceBalls" /\ mid[1].Pos = mid[2].Pos) => particles = mid
       /\ (ret = "Update" /\ Len(mid) = 2 /\ mid[1].Pos = mid[2].Pos) => particles = mid

\* bounceBalls has been called on two moving balls with the same centre
C30_Witness ==
    /\ prog = "balls"
    /\ ret = "bounceBalls"
    /\ mid[1].Pos = mid[2].Pos
    /\ mid[1].Vel # mid[2].Vel
    /\ particles = mid

-----------------------------------------------------------------------------
(* Game.Update and Game.Draw of the pooled programs together with Game.Draw of the   *)
(* sorting and projecting programs                                                   *)

InitDraws == InitFrames \/ InitSort

NextDraws == NextFrames \/ NextSort

SpecDraws == InitDraws /\ [][NextDraws]_vars

-----------------------------------------------------------------------------
(* The particle loop of Game.Draw at the capacities of the source: the vertex       *)
(* counter and the indices of the quad appended last, one quad per active particle  *)

\* capacities that make the vertex counter pass 65535
maxParticlesOf_larger(name) == IF name = "show" THEN 17000 ELSE 8000

\* maxParticles of the batched programs: the show, part_000, and 8000 in
\* Concert.main.go, smoke.main.go and the lifetime-colour program
maxParticlesOf(name) ==
    CASE name = "show" -> 14000
      [] name = "smokefire" -> 10000
      [] OTHER -> 8000

\* a Draw about to run its particle loop: tick counts the quads appended to the
\* batch, drawn holds the six indices of the last one
InitIndices ==
    /\ prog \in {"show", "smokefire", "concert", "smoke", "lifetime"}
    /\ particles = << >>
    /\ emitters = << >>
    /\ tick = 0
    /\ clicks = 0
    /\ mid = << >>
    /\ bursts = {}
    /\ since = << >>
    /\ uses = << >>
    /\ ret = "nil"
    /\ calls = NoCalls
    /\ drawn = << >>
    /\ camera = NoCamera
    /\ batches = NoBatches

\* one iteration of the loop for an active particle: vIndex := uint16(vertexCount),
\* vertexCount += 4, append the six indices; at most maxParticles particles are active
AppendQuadIndices ==
    /\ tick < maxParticlesOf(prog)
    /\ drawn' = quadIndices((4 * tick) % 65536)
    /\ tick' = tick + 1
    /\ UNCHANGED <<prog, particles, emitters, clicks, mid, bursts, since, uses, ret, calls,
                   camera, batches>>

SpecIndices == InitIndices /\ [][AppendQuadIndices]_vars

-----------------------------------------------------------------------------
(* Properties of spawning, allocation and the order of a tick *)

\* C31: no spawn overwrites a live particle: in every Update of part_000,
\* Concert.main.go and amazing.main.go each particle active before the emitter
\* spawns, the click burst and the surprise burst is identical after all of them and
\* before integration, also when the pool is exhausted.
C31_LiveUntouchedBySpawn ==
    [][\A i \in DOMAIN particles :
          particles[i].active => i \in DOMAIN mid' /\ mid'[i] = particles[i]]_vars

\* one spawn of an Update filled a slot, a later one found the pool exhausted and made
\* nothing, and a particle that was live before them went through both
C31_Witness ==
    /\ \E b \in bursts : b.made >= 1
    /\ \E b \in bursts : b.n >= 1 /\ b.free = 0 /\ b.made = 0
    /\ \E i \in DOMAIN mid : mid[i].active /\ since[i] >= 2 /\ mid[i].lifetime >= 1

\* the rank of slot i among the inactive slots of ps, counted from the lowest index
FreeRank(ps, i) == Cardinality({ j \in DOMAIN ps : j <= i /\ ~ps[j].active })

\* as many draws as ps has inactive slots, the j-th one marked j in its angle
MarkedDraws(ps, d) == [j \in 1..FreeCount(ps) |-> [d EXCEPT !.angle = j]]

\* C32: in the fixed pools allocateParticle returns the lowest-indexed inactive slot
\* (nil when there is none), a slot that is still inactive after the call, so a second
\* call on the same pool returns the same slot; the consecutive spawns of one burst fill the inactive
\* slots in increasing index order, the j-th particle made going to the j-th lowest
\* inactive slot, and leave every other slot as it was.
C32_LowestFreeInOrder ==
    \A ps \in {particles, mid} :
        LET free == { i \in DOMAIN ps : ~ps[i].active } IN
        /\ allocateParticle(ps) =
              IF free = {} THEN 0 ELSE CHOOSE i \in free : \A j \in free : i <= j
        /\ allocateParticle(ps) # 0 => ~ps[allocateParticle(ps)].active
        /\ prog = "concert" =>
              \A d \in ConcertDraws :
                 LET ds == MarkedDraws(ps, d)
                     r == Concert_spawnExplosion(ps, 0, 0, ds)
                 IN \A i \in DOMAIN ps :
                       r[i] = IF i \in free THEN newFireParticle(0, 0, ds[FreeRank(ps, i)])
                              ELSE ps[i]
        /\ prog = "smokefire" =>
              \A d \in FireDraws :
                 LET ds == MarkedDraws(ps, d)
                     r == spawnExplosion(ps, 0, 0, ds)
                 IN \A i \in DOMAIN ps :
                       r[i] = IF i \in free
                              THEN [newParticle(0, 0, TypeFire, ds[FreeRank(ps, i)])
                                       EXCEPT !.vx = d.bvx, !.vy = d.bvy]
                              ELSE ps[i]

\* a pool of Concert.main.go whose inactive slots are the first and the last one,
\* around a live particle, after a burst has filled all three
C32_Witness ==
    /\ prog = "concert"
    /\ clicks >= 1
    /\ ~particles[1].active /\ particles[2].active /\ ~particles[3].active
    /\ uses[1] >= 1 /\ uses[3] >= 1
    /\ allocateParticle(particles) = 1

\* C33: in smoke.main.go the pool reuses before it grows: a slot is appended only
\* when every existing slot is active and len(g.particles) < maxParticles, one slot
\* at a time, and right after the append every slot of the pool is active at once;
\* the pool never shrinks.  So len(g.particles) never exceeds maxParticles and never
\* exceeds a number of simultaneously active particles the run has already had.
C33_ReuseBeforeGrow ==
    [][/\ Len(particles') <= Smoke_capacity
       /\ Len(particles') = Len(mid')
       /\ Len(mid') >= Len(particles)
       /\ Len(mid') > Len(particles) =>
             /\ \A i \in DOMAIN particles : particles[i].active
             /\ Len(particles) < Smoke_capacity
             /\ Len(mid') = Len(particles) + 1
             /\ ActiveCount(mid') = Len(mid')]_vars

\* in the run with 8000 slots allowed a slot was used a second time while the pool
\* was still growing: a slot behind it was appended later and holds its first particle
C33_Witness ==
    /\ prog = "smokefull"
    /\ \E i, j \in DOMAIN particles :
          /\ i < j
          /\ uses[i] >= 2 /\ particles[i].active
          /\ uses[j] = 1 /\ particles[j].active
          /\ since[j] < since[i]

\* C34: with maxParticles = 8000 the emitter of smoke.main.go is never blocked: at
\* most one particle is spawned per tick and every lifespan is at most 299 ticks, so
\* len(g.particles) is at most 299, strictly below maxParticles, in every reachable
\* state, and the guard len(g.particles) < maxParticles of Update holds whenever it
\* is evaluated.
C34_NeverBlocked ==
    prog = "smokefull" =>
        /\ \A b \in bursts : b.made <= 1
        /\ \A i \in DOMAIN mid : mid[i].maxLife <= 299
        /\ Len(mid) <= 299 /\ Len(particles) <= 299
        /\ 299 < Smoke_maxParticles
        /\ Len(particles) < Smoke_capacity

\* the pool has its largest size, 299 slots, and the spawn of the last Update went
\* into a slot that had been used before
C34_Witness ==
    /\ prog = "smokefull"
    /\ Len(particles) = 299
    /\ \E i \in DOMAIN mid : uses[i] >= 2 /\ mid[i].active /\ mid[i].lifetime = 0

\* C35: the 16-bit quad indices never wrap: in every batched program 4 * maxParticles
\* - 1 <= 65535, and in a batch of up to maxParticles quads the six indices of the
\* k-th quad are 4(k-1), 4(k-1)+1, 4(k-1)+2, 4(k-1)+1, 4(k-1)+3, 4(k-1)+2, the
\* vertices of its own particle, none above 65535.
C35_IndicesNeverWrap ==
    /\ 4 * maxParticlesOf(prog) - 1 <= 65535
    /\ tick >= 1 =>
          /\ drawn = << 4 * (tick - 1), 4 * (tick - 1) + 1, 4 * (tick - 1) + 2,
                        4 * (tick - 1) + 1, 4 * (tick - 1) + 3, 4 * (tick - 1) + 2 >>
          /\ \A k \in DOMAIN drawn : drawn[k] <= 65535

\* the last quad of the show's batch with all 14000 slots active: its largest index
\* is 55999
C35_Witness ==
    /\ prog = "show"
    /\ tick = 14000
    /\ drawn[5] = 55999

\* C36: Draw does not change the simulation: after every Draw the pool or the list
\* (its members, their order, every field of every particle), the tick counter, the
\* emitters and the camera are what they were before it; the depth sort works on
\* the list of draw items and leaves the pool in its order.
C36_DrawKeepsSimulation ==
    [][(\/ DrawSmokeFire \/ DrawConcert \/ DrawShow \/ DrawSmoke
        \/ DrawProject \/ DrawProjected
        \/ DrawBubbles \/ DrawPart001 \/ DrawLifetime) =>
          /\ particles' = particles
          /\ tick' = tick
          /\ emitters' = emitters
          /\ camera' = camera]_vars

\* a Draw of the lifetime-colour program put the particle of a later slot first, and
\* the pool still holds its slots in their order
C36_Witness ==
    /\ prog = "lifetime"
    /\ Len(drawn) >= 2
    /\ drawn[1].id > drawn[2].id
    /\ \A i \in DOMAIN particles : particles[i].id = i

\* the particle has more than one tick of life left
outlives(p) == p.life > 1

\* Particle.Update of the program that runs
listUpdate(p) ==
    CASE prog = "bubbles" -> Bubbles_Update(p)
      [] prog = "part_001" -> Part001_update(p)
      [] OTHER -> NP_Update(p)

\* C37: in bubbles.main.go, part_001 and NewParticles.main.go the compaction of an
\* Update removes exactly the particles whose life reaches 0 in that Update (those
\* that entered it with life 1) and keeps every other particle of the list as it
\* was after the spawn, once, updated, and in the same relative order; only the
\* regeneration spawn of part_001 follows, with fresh particles.  Life falls by one
\* per Update from the value at creation, so a particle created with life = maxLife
\* = L is removed during its L-th Update, and no list handed to Draw holds a
\* particle with life <= 0.
C37_CompactionExact ==
    [][(prog \in {"bubbles", "part_001", "newparticles"}) =>
          \E kept \in { SelectSeq(mid', outlives) } :
             /\ Len(particles') >= Len(kept)
             /\ \A k \in DOMAIN kept : particles'[k] = listUpdate(kept[k])
             /\ prog # "part_001" => Len(particles') = Len(kept)
             /\ \A k \in DOMAIN particles' :
                   /\ particles'[k].life > 0
                   /\ k > Len(kept) => particles'[k].life = particles'[k].maxLife
             /\ Len(mid') >= Len(particles)
             /\ \A k \in DOMAIN particles : mid'[k] = particles[k]
             /\ prog # "newparticles" =>
                   \A k \in DOMAIN mid' : k > Len(particles) => mid'[k].life = mid'[k].maxLife]_vars

\* the 101st Update of bubbles.main.go: a particle created in the second Update with
\* life 100 entered it with life 1, ahead of one with a tick more to live, and the
\* compaction removed the first and kept the second
C37_Witness ==
    /\ prog = "bubbles"
    /\ tick = 101
    /\ \E i, j \in DOMAIN mid :
          /\ i < j
          /\ mid[i].life = 1 /\ mid[i].maxLife = 100
          /\ mid[j].life = 2 /\ mid[j].maxLife = 101
    /\ Len(particles) < Len(mid)
    /\ Len(particles) >= 1
    /\ \A k \in DOMAIN particles : particles[k].life = 1 /\ particles[k].maxLife = 101

\* C38: in part_000, Concert.main.go, the show and smoke.main.go an Update spawns
\* before it integrates, so a particle spawned in an Update is integrated in that same
\* Update and leaves it with lifetime 1: after every Update every active particle has
\* lifetime >= 1, and every quad a Draw appends belongs to an active particle with
\* lifetime >= 1.
C38_SpawnedIntegratedSameTick ==
    [][(prog \in Batched) =>
          /\ \A i \in DOMAIN particles' :
                /\ particles'[i].active => particles'[i].lifetime >= 1
                /\ mid'[i].active /\ mid'[i].lifetime = 0 => particles'[i].lifetime = 1
          /\ (batches' # batches \/ drawn' # drawn) =>
                \A n \in DOMAIN batches' : \A i \in Slots(batches'[n]) :
                   particles[i].active /\ particles[i].lifetime >= 1]_vars

\* a Draw right after the Update that spawned a particle: the particle left the spawn
\* with lifetime 0, the integration of the same Update made it 1, and its quad is in
\* the batch
C38_Witness ==
    /\ prog = "concert"
    /\ batches # NoBatches
    /\ \E i \in DOMAIN particles :
          /\ mid[i].active /\ mid[i].lifetime = 0
          /\ particles[i].active /\ particles[i].lifetime = 1
          /\ i \in Slots(batches.quads)

=============================================================================
